---------------------------- MODULE Spec2Model ----------------------------
(***************************************************************************)
(* Model of the letterboxd-rewind scraping pipeline.                       *)
(*                                                                         *)
(*   Spec       the enrichment coordinator (enrich_films and the film      *)
(*              tasks it gathers) as called from run_scrape                *)
(*   SpecFetch  one run of the detail fetcher (fetch_with_retry of the     *)
(*              aiohttp implementation, fetch_url of the requests one)     *)
(*   SpecFilm   the enrichment of a single film, with empty bodies        *)
(*   SpecPages  the diary paginator (scrape_all_pages)                     *)
(*   SpecRun    run_scrape: the year loop, the enrichment call, the report *)
(*   SpecDedup  StatCollector.__init__: rewatch counts and canonical rows  *)
(*   SpecScore  the weighted, Bayesian and Wilson score functions          *)
(*   SpecRank   aggregate_list_field and the top_by_* rankings             *)
(*   SpecRewatch top_rewatched                                             *)
(*   SpecTimeline get_cumulative_timeline_aggregated                       *)
(*   SpecMilestones get_milestones                                         *)
(*   SpecHype   the overhyped and underhyped director rankings             *)
(*   SpecDocs   one film, each of its four fetches followed on its own     *)
(*   SpecLive   the coordinator under fair scheduling, not cancelled       *)
(***************************************************************************)
EXTENDS Integers, Sequences, FiniteSets, TLC

(***************************************************************************)
(* Bounds of the model.                                                    *)
(***************************************************************************)
\* number of films in the batch handed to enrich_films
NumFilms == 2
\* largest max_concurrency tried
MaxConcurrency == 2
\* number of diary pages on which the origin can still serve records
MaxPage == 3
\* largest number of records parsed from one diary page
MaxPerPage == 2
\* largest value tried for the max_pages and max_films caps
MaxCap == 3
\* the current calendar year is at most this many years after the lower bound
MaxYearSpan == 2
\* largest number of diary records one year holds
MaxYearFilms == 2
\* largest number of diary records handed to StatCollector
MaxRecords == 3
\* number of distinct film titles
NumTitles == 2
\* largest rating a record carries, in half stars
MaxRating == 2
\* largest count a score is computed for
MaxCount == 12
\* largest number of ratings an average is taken over
MaxRated == 2
\* largest number of canonical films a facet is aggregated over
MaxRows == 2
\* number of distinct facet values (genres, actors, ...)
NumItems == 2
\* largest n asked of a ranking
MaxTop == 2
\* largest number of diary records the full-set reports are computed over
MaxDiary == 4
\* number of distinct calendar dates
MaxDays == 2

(***************************************************************************)
(* Program constants.                                                      *)
(***************************************************************************)
\* fetch_with_retry(url, max_retries=3); range(3) in fetch_url
max_retries == 3

\* Python's None for an Optional[int]
None == -1

\* `while year_to_scrape >= 2000` in run_scrape
LowerBoundYear == 2000

\* a missing rating (NaN after pd.to_numeric(..., errors="coerce"))
NaN == -99
\* pandas NaT
NaT == -98

\* tmp["rating"].fillna(-1), in stars
FillValue == -1

\* _bayesian_average_score(..., c: int = 3, m: float = 3.0)
bayes_c == 3

bayes_m == 3

\* _wilson_score(..., z: float = 1.96): z = z_num / z_den
z_num == 49

z_den == 25

\* the four documents fetched per film, in the order of `results`
Docs == {"main", "crew", "details", "genres"}

\* what a document fetch hands back: None, an empty string, a non-empty body
Results == {"None", "Empty", "Body"}

\* film.get("film_path"): None, "", a path string, a truthy non-string
FilmPaths == {"None", "Empty", "Path", "NotStr"}

Films == 1..NumFilms

VARIABLES
    \* ---- enrichment coordinator ----
    film_path,              \* film_path[i]: the record's film_path value
    max_concurrency,        \* argument of enrich_films
    semaphore,              \* asyncio.Semaphore._value
    tpc,                    \* tpc[i]: position of film i's task
    results,                \* results[i]: what film i's four fetches returned
    fields,                 \* fields[i][d]: enrichment fields set from document d
    fetched,                \* <<i, d>>: fetch_with_retry was called for it
    enrich_success_count,   \* self.stats["enrich_success_count"]
    enrich_fail_count,      \* self.stats["enrich_fail_count"]
    co_pc,                  \* position of enrich_films
    rs_pc,                  \* position of run_scrape
    \* ---- detail fetcher ----
    f_impl,                 \* "aiohttp" (fetch_with_retry) or "requests" (fetch_url)
    f_attempt,              \* loop variable `attempt`
    f_pc,                   \* "request", "sleep", "returned", "raised"
    f_result,               \* returned value
    f_log,                  \* outcome of each request issued so far
    f_sleeps,               \* duration of each sleep taken, in half seconds
    \* ---- paginator ----
    max_pages,              \* argument of scrape_all_pages
    max_films,              \* argument of scrape_all_pages
    pg_pc,                  \* "fetch", "fetching", "sleep", "done"
    current_page,           \* loop variable
    all_films,              \* records collected, each <<page, index>>
    pg_log,                 \* outcome of each page fetch issued so far
    pages_fetched,          \* self.stats["pages_fetched"]
    pg_in_flight,           \* the pages whose request is awaited
    page_delays,            \* the inter-page sleeps that are over
    \* ---- run_scrape ----
    is_all,                 \* the branch taken at `if year == "ALL" ...`
    req_year,               \* int(year) of a single-year request
    diary,                  \* diary[y]: records scrape_all_pages finds for year y
    current_year,           \* datetime.now().year
    year_to_scrape,         \* loop variable
    years_scraped,          \* list of the same name
    scrapers,               \* the year of each page scraper created, in order
    run_films,              \* all_films / films of run_scrape
    run_enrich,             \* "not_called", "returned" or "raised"
    run_enrich_failed,      \* films whose enrichment failed
    run_stats,              \* TRUE once StatCollector has been built
    report,                 \* the returned dictionary's success and error
    run_pc,                 \* position of run_scrape
    \* ---- StatCollector ----
    df,                     \* the DataFrame handed to StatCollector(df)
    self_df,                \* self.df
    rewatch_counts,         \* self.rewatch_counts
    df_unique,              \* self.df_unique
    self_df2,               \* self.df of StatCollector(self.df)
    df_unique2,             \* self.df_unique of StatCollector(self.df)
    sc_pc,                  \* "new", "built", "rebuilt", "rewatched"
    \* ---- score functions ----
    score_kind,             \* "weighted", "bayesian" or "wilson"
    avg_rating,             \* <<s, l>>: the mean of l ratings whose half
                            \* stars add up to s; l = 0 stands for None
    count,                  \* the count the score is computed for next
    scores,                 \* scores[n]: the score returned for count n
    \* ---- facet aggregate and rankings ----
    unique_rows,            \* the rows of self.df_unique: rating and list field
    stats,                  \* self.stats[metric_name], in insertion order
    rk_pc,                  \* "new", "aggregated", "ranked", "raised"
    rank_kind,              \* the top_by_* function called last
    top_n,                  \* its argument n
    ranking,                \* the list it returned
    \* ---- reports over the full set ----
    top_rewatched_n,        \* argument n of top_rewatched
    rewatched,              \* the list top_rewatched returned
    watch_df,               \* self.df reduced to movie_name and watch_date
    vw_pc,                  \* "built", "timeline", "milestones"
    timeline,               \* result of get_cumulative_timeline_aggregated
    milestones,             \* result of get_milestones
    hype_rows,              \* self.df_unique: rating, avg_rating, directors
    hy_pc,                  \* "built", "ranked"
    hype_kind,              \* "overhyped" or "underhyped"
    hype_n,                 \* argument n of the call
    hype_min,               \* argument min_films, None when left out
    hype_ranking            \* the list returned

enrichVars == <<film_path, max_concurrency, semaphore, tpc, results, fields,
                fetched, enrich_success_count, enrich_fail_count, co_pc, rs_pc>>
fetchVars == <<f_impl, f_attempt, f_pc, f_result, f_log, f_sleeps>>
pageVars == <<max_pages, max_films, pg_pc, current_page, all_films, pg_log,
              pages_fetched, pg_in_flight, page_delays>>
runVars == <<is_all, req_year, diary, current_year, year_to_scrape,
             years_scraped, scrapers, run_films, run_enrich,
             run_enrich_failed, run_stats, report, run_pc>>
statVars == <<df, self_df, rewatch_counts, df_unique, self_df2, df_unique2,
              sc_pc>>
scoreVars == <<score_kind, avg_rating, count, scores>>
rankVars == <<unique_rows, stats, rk_pc, rank_kind, top_n, ranking>>
dateVars == <<watch_df, vw_pc, timeline, milestones>>
hypeVars == <<hype_rows, hy_pc, hype_kind, hype_n, hype_min, hype_ranking>>
viewVars == <<top_rewatched_n, rewatched, dateVars, hypeVars>>
restVars == <<runVars, statVars, scoreVars, rankVars, viewVars>>
vars == <<enrichVars, fetchVars, pageVars, restVars>>

\* Python truthiness of an Optional[int]
Truthy(x) == x # None /\ x # 0

Last(s) == s[Len(s)]

(***************************************************************************)
(* Enrichment coordinator                                                  *)
(***************************************************************************)
\* the enrichment defaults written by _extract_film_data
DefaultFields == [d \in Docs |-> "absent"]

NoResults == [d \in Docs |-> "pending"]

\* task positions in which the film holds a semaphore permit
InSlot == {"fetching", "gathered"}

\* task positions in which the film's task has finished
Finished == {"done", "skipped", "raised", "cancelled"}

SlotHolders == {i \in Films : tpc[i] \in InSlot}

InitIdleEnrich ==
    /\ film_path = [i \in Films |-> "None"]
    /\ max_concurrency = 1
    /\ semaphore = 1
    /\ tpc = [i \in Films |-> "pending"]
    /\ results = [i \in Films |-> NoResults]
    /\ fields = [i \in Films |-> DefaultFields]
    /\ fetched = {}
    /\ enrich_success_count = 0
    /\ enrich_fail_count = 0
    /\ co_pc = "idle"
    /\ rs_pc = "idle"

InitEnrich ==
    /\ film_path \in [Films -> FilmPaths]
    /\ max_concurrency \in 1..MaxConcurrency
    /\ semaphore = max_concurrency
    /\ tpc = [i \in Films |-> "pending"]
    /\ results = [i \in Films |-> NoResults]
    /\ fields = [i \in Films |-> DefaultFields]
    /\ fetched = {}
    /\ enrich_success_count = 0
    /\ enrich_fail_count = 0
    /\ co_pc = "gather"
    /\ rs_pc = "enrich"

\* a task admitted without a look at the permits
CanAcquireUnbounded(i) == tpc[i] = "pending"

\* `async with semaphore` admits the task while a permit is free
CanAcquire(i) == tpc[i] = "pending" /\ semaphore > 0

\* a task that goes on to fetch for a record without a path
SkipFilmStillFetches(i) ==
    /\ co_pc = "gather"
    /\ tpc[i] = "pending" /\ semaphore > 0
    /\ film_path[i] \in {"None", "Empty"}
    /\ semaphore' = semaphore - 1
    /\ tpc' = [tpc EXCEPT ![i] = "fetching"]
    /\ fetched' = fetched \cup {<<i, d>> : d \in Docs}
    /\ UNCHANGED <<film_path, max_concurrency, results, fields,
                   enrich_success_count, enrich_fail_count, co_pc, rs_pc>>
    /\ UNCHANGED <<fetchVars, pageVars, restVars>>

\* a return without a path that does not give the permit back
SkipFilmKeepsPermit(i) ==
    /\ co_pc = "gather"
    /\ tpc[i] = "pending" /\ semaphore > 0
    /\ film_path[i] \in {"None", "Empty"}
    /\ semaphore' = semaphore - 1
    /\ tpc' = [tpc EXCEPT ![i] = "skipped"]
    /\ UNCHANGED <<film_path, max_concurrency, results, fields,
                   fetched, enrich_success_count, enrich_fail_count, co_pc,
                   rs_pc>>
    /\ UNCHANGED <<fetchVars, pageVars, restVars>>

\* acquire; film_path is falsy: return at once, releasing the permit
SkipFilm(i) ==
    /\ co_pc = "gather"
    /\ CanAcquire(i)
    /\ film_path[i] \in {"None", "Empty"}
    /\ tpc' = [tpc EXCEPT ![i] = "skipped"]
    /\ UNCHANGED <<film_path, max_concurrency, semaphore, results, fields,
                   fetched, enrich_success_count, enrich_fail_count, co_pc,
                   rs_pc>>
    /\ UNCHANGED <<fetchVars, pageVars, restVars>>

\* a gather without return_exceptions: the first exception of a task
\* leaves enrich_films at once
RaiseAbortsBatch(i) ==
    /\ co_pc = "gather"
    /\ tpc[i] = "pending" /\ semaphore > 0
    /\ film_path[i] = "NotStr"
    /\ tpc' = [tpc EXCEPT ![i] = "raised"]
    /\ co_pc' = "raised"
    /\ UNCHANGED <<film_path, max_concurrency, semaphore, results, fields,
                   fetched, enrich_success_count, enrich_fail_count, rs_pc>>
    /\ UNCHANGED <<fetchVars, pageVars, restVars>>

\* acquire; film_path.startswith raises on a truthy non-string; the
\* exception leaves `async with`, which releases the permit, and is kept by
\* gather(return_exceptions=True) as that task's result
RaiseInTask(i) ==
    /\ co_pc = "gather"
    /\ CanAcquire(i)
    /\ film_path[i] = "NotStr"
    /\ tpc' = [tpc EXCEPT ![i] = "raised"]
    /\ UNCHANGED <<film_path, max_concurrency, semaphore, results, fields,
                   fetched, enrich_success_count, enrich_fail_count, co_pc,
                   rs_pc>>
    /\ UNCHANGED <<fetchVars, pageVars, restVars>>

\* acquire; build the four urls and await the gather of the four fetches
StartFetches(i) ==
    /\ co_pc = "gather"
    /\ CanAcquire(i)
    /\ film_path[i] = "Path"
    /\ semaphore' = semaphore - 1
    /\ tpc' = [tpc EXCEPT ![i] = "fetching"]
    /\ fetched' = fetched \cup {<<i, d>> : d \in Docs}
    /\ UNCHANGED <<film_path, max_concurrency, results, fields,
                   enrich_success_count, enrich_fail_count, co_pc, rs_pc>>
    /\ UNCHANGED <<fetchVars, pageVars, restVars>>

\* all four fetches of film i have returned; r is what they returned
FetchesReturn(i, r) ==
    /\ co_pc = "gather"
    /\ tpc[i] = "fetching"
    /\ tpc' = [tpc EXCEPT ![i] = "gathered"]
    /\ results' = [results EXCEPT ![i] = r]
    /\ UNCHANGED <<film_path, max_concurrency, semaphore, fields, fetched,
                   enrich_success_count, enrich_fail_count, co_pc, rs_pc>>
    /\ UNCHANGED <<fetchVars, pageVars, restVars>>

\* `if html` of Python: None and "" are falsy
HtmlTruthy(h) == h = "Body"

\* a test of the two results against None instead of their truthiness
CountsNotNone(r) == r["main"] # "None" \/ r["crew"] # "None"

\* `if main_html or crew_html`
CountsAsSuccess(r) == HtmlTruthy(r["main"]) \/ HtmlTruthy(r["crew"])

\* a merge that gives up the whole film when one document is missing
ParsePagesAllOrNone(f, r) ==
    IF \A d \in Docs : HtmlTruthy(r[d])
    THEN [d \in Docs |-> "extracted"]
    ELSE f

\* _parse_main_page, _parse_crew_page, _parse_details_page,
\* _parse_genres_page: `if not html: return`, else set the document's fields
ParsePages(f, r) ==
    [d \in Docs |-> IF HtmlTruthy(r[d]) THEN "extracted" ELSE f[d]]

\* a count that is read before and written after a point where other tasks
\* run: the increment of a task that counts in between is overwritten
CountAndParseUnsynchronised(i) ==
    /\ co_pc = "gather"
    /\ tpc[i] = "gathered"
    /\ LET stale == IF \E j \in Films : j # i /\ tpc[j] = "gathered"
                    THEN 1 ELSE 0
       IN  IF CountsAsSuccess(results[i])
           THEN /\ enrich_success_count' = enrich_success_count + 1 - stale
                /\ enrich_fail_count' = enrich_fail_count
           ELSE /\ enrich_fail_count' = enrich_fail_count + 1 - stale
                /\ enrich_success_count' = enrich_success_count
    /\ fields' = [fields EXCEPT ![i] = ParsePages(fields[i], results[i])]
    /\ semaphore' = semaphore + 1
    /\ tpc' = [tpc EXCEPT ![i] = "done"]
    /\ UNCHANGED <<film_path, max_concurrency, results, fetched, co_pc,
                   rs_pc>>
    /\ UNCHANGED <<fetchVars, pageVars, restVars>>

\* the task resumes after the gather: count, parse the four pages, leave
\* `async with` (no await in between)
CountAndParse(i) ==
    /\ co_pc = "gather"
    /\ tpc[i] = "gathered"
    /\ IF CountsAsSuccess(results[i])
       THEN /\ enrich_success_count' = enrich_success_count + 1
            /\ enrich_fail_count' = enrich_fail_count
       ELSE /\ enrich_fail_count' = enrich_fail_count + 1
            /\ enrich_success_count' = enrich_success_count
    /\ fields' = [fields EXCEPT ![i] = ParsePages(fields[i], results[i])]
    /\ semaphore' = semaphore + 1
    /\ tpc' = [tpc EXCEPT ![i] = "done"]
    /\ UNCHANGED <<film_path, max_concurrency, results, fetched, co_pc,
                   rs_pc>>
    /\ UNCHANGED <<fetchVars, pageVars, restVars>>

\* gather(*tasks, return_exceptions=True) completes when every task has
\* finished, whatever its result; enrich_films then returns
GatherReturns ==
    /\ co_pc = "gather"
    /\ \A i \in Films : tpc[i] \in Finished
    /\ co_pc' = "returned"
    /\ UNCHANGED <<film_path, max_concurrency, semaphore, tpc, results,
                   fields, fetched, enrich_success_count, enrich_fail_count,
                   rs_pc>>
    /\ UNCHANGED <<fetchVars, pageVars, restVars>>

\* run_scrape goes on to build the report from `films`
BuildReport ==
    /\ rs_pc = "enrich"
    /\ co_pc = "returned"
    /\ rs_pc' = "reported"
    /\ UNCHANGED <<film_path, max_concurrency, semaphore, tpc, results,
                   fields, fetched, enrich_success_count, enrich_fail_count,
                   co_pc>>
    /\ UNCHANGED <<fetchVars, pageVars, restVars>>

\* The task running run_scrape is cancelled while it awaits the gather:
\* the gather cancels the unfinished film tasks (each leaves `async with`,
\* releasing its permit) and CancelledError, a BaseException, passes
\* through `except Exception` in run_scrape
CancelRequest ==
    /\ rs_pc = "enrich"
    /\ co_pc = "gather"
    /\ tpc' = [i \in Films |->
                 IF tpc[i] \in Finished THEN tpc[i] ELSE "cancelled"]
    /\ semaphore' = semaphore + Cardinality(SlotHolders)
    /\ co_pc' = "cancelled"
    /\ rs_pc' = "cancelled"
    /\ UNCHANGED <<film_path, max_concurrency, results, fields, fetched,
                   enrich_success_count, enrich_fail_count>>
    /\ UNCHANGED <<fetchVars, pageVars, restVars>>

\* In Spec a fetch hands back None or a non-empty body: the task tests its
\* four results for truthiness only, so an empty body behaves as None there;
\* SpecFilm follows one film with all three results
TruthValues == {"None", "Body"}

Next ==
    \/ \E i \in Films : SkipFilm(i)
    \/ \E i \in Films : RaiseInTask(i)
    \/ \E i \in Films : StartFetches(i)
    \/ \E i \in Films : \E r \in [Docs -> TruthValues] : FetchesReturn(i, r)
    \/ \E i \in Films : CountAndParse(i)
    \/ GatherReturns
    \/ BuildReport
    \/ CancelRequest

\* the results followed for termination, which does not depend on them:
\* a film's four fetches all fail or all hand back a body
LiveResults == {[d \in Docs |-> v] : v \in TruthValues}

\* the enrichment of a run that is not cancelled
NextLive ==
    \/ \E i \in Films : SkipFilm(i)
    \/ \E i \in Films : RaiseInTask(i)
    \/ \E i \in Films : StartFetches(i)
    \/ \E i \in Films : \E r \in LiveResults : FetchesReturn(i, r)
    \/ \E i \in Films : CountAndParse(i)
    \/ GatherReturns
    \/ BuildReport

\* the steps of the task of film i
TaskStep(i) ==
    \/ SkipFilm(i)
    \/ RaiseInTask(i)
    \/ StartFetches(i)
    \/ \E r \in LiveResults : FetchesReturn(i, r)
    \/ CountAndParse(i)

\* the event loop runs every task that can run (a waiter of the semaphore
\* is woken when a permit is free), and every request returns or times out,
\* so that each fetch_with_retry, bounded by max_retries, returns
Fairness ==
    /\ \A i \in Films : WF_vars(TaskStep(i))
    /\ WF_vars(GatherReturns \/ BuildReport)

NextFilm ==
    \/ \E i \in Films : SkipFilm(i)
    \/ \E i \in Films : RaiseInTask(i)
    \/ \E i \in Films : StartFetches(i)
    \/ \E i \in Films : \E r \in [Docs -> Results] : FetchesReturn(i, r)
    \/ \E i \in Films : CountAndParse(i)
    \/ GatherReturns
    \/ BuildReport
    \/ CancelRequest

(***************************************************************************)
(* One film's four document fetches, each followed on its own              *)
(***************************************************************************)
\* positions of one fetch_with_retry still running: its first, second or
\* third attempt (max_retries = 3)
InFlight == {"pending", "retry2", "retry3"}

\* `for attempt in range(max_retries)`: the attempt after a retried one
AttemptAfter(a) == IF a = "pending" THEN "retry2" ELSE "retry3"

\* a 429, a status >= 500, a timeout or another exception on an attempt
\* that is not the last: sleep, then try again
DocRetries(i, d) ==
    /\ co_pc = "gather"
    /\ tpc[i] = "fetching"
    /\ results[i][d] \in InFlight \ {"retry3"}
    /\ results' = [results EXCEPT ![i][d] = AttemptAfter(results[i][d])]
    /\ UNCHANGED <<film_path, max_concurrency, semaphore, tpc, fields,
                   fetched, enrich_success_count, enrich_fail_count, co_pc,
                   rs_pc>>
    /\ UNCHANGED <<fetchVars, pageVars, restVars>>

\* one fetch_with_retry returns v: a body (possibly empty) of a 200, None
\* of a status that is not retried or of the last attempt failing
DocReturns(i, d, v) ==
    /\ co_pc = "gather"
    /\ tpc[i] = "fetching"
    /\ results[i][d] \in InFlight
    /\ results' = [results EXCEPT ![i][d] = v]
    /\ UNCHANGED <<film_path, max_concurrency, semaphore, tpc, fields,
                   fetched, enrich_success_count, enrich_fail_count, co_pc,
                   rs_pc>>
    /\ UNCHANGED <<fetchVars, pageVars, restVars>>

\* a wait that is over with the first fetch to return
AnyReturned(i) == \E d \in Docs : results[i][d] \in Results

\* asyncio.gather of the four fetches is done when each of them is
AllReturned(i) == \A d \in Docs : results[i][d] \in Results

\* `results = await asyncio.gather(...)` hands the four results to the task
AwaitDocs(i) ==
    /\ co_pc = "gather"
    /\ tpc[i] = "fetching"
    /\ AllReturned(i)
    /\ tpc' = [tpc EXCEPT ![i] = "gathered"]
    /\ UNCHANGED <<film_path, max_concurrency, semaphore, results, fields,
                   fetched, enrich_success_count, enrich_fail_count, co_pc,
                   rs_pc>>
    /\ UNCHANGED <<fetchVars, pageVars, restVars>>

NextDocs ==
    \/ \E i \in Films : SkipFilm(i)
    \/ \E i \in Films : RaiseInTask(i)
    \/ \E i \in Films : StartFetches(i)
    \/ \E i \in Films : \E d \in Docs : DocRetries(i, d)
    \/ \E i \in Films : \E d \in Docs : \E v \in Results : DocReturns(i, d, v)
    \/ \E i \in Films : AwaitDocs(i)
    \/ \E i \in Films : CountAndParse(i)
    \/ GatherReturns
    \/ BuildReport
    \/ CancelRequest

(***************************************************************************)
(* Detail fetcher                                                          *)
(***************************************************************************)
\* what one request can end in: status 200 with a non-empty or an empty
\* body, 429, a status >= 500, another 4xx, any other status, a timeout,
\* any other exception (connection error)
Outcomes == {"ok", "ok_empty", "s429", "s5xx", "s4xx", "sother", "timeout",
             "error"}

Impls == {"aiohttp", "requests"}

\* a fetcher that also retries the other 4xx statuses
RetriedWith4xx(impl) ==
    IF impl = "aiohttp"
    THEN {"s429", "s5xx", "s4xx", "timeout", "error"}
    ELSE {"s429", "s4xx", "timeout", "error"}

\* the outcomes after which the loop sleeps and goes on to the next attempt
Retried(impl) ==
    IF impl = "aiohttp"
    THEN {"s429", "s5xx", "timeout", "error"}
    ELSE {"s429", "timeout", "error"}

\* the sleep after an outcome, in half seconds
SleepTime(impl, o, attempt) ==
    IF o = "s429" THEN (attempt + 1) * 4
    ELSE IF impl = "aiohttp" /\ o \in {"s5xx", "timeout"} THEN 2
    ELSE 1

\* the value of the `return` taken on an outcome that is not retried
Returned(o) ==
    IF o = "ok" THEN "Body" ELSE IF o = "ok_empty" THEN "Empty" ELSE "None"

InitIdleFetch ==
    /\ f_impl = "aiohttp"
    /\ f_attempt = 0
    /\ f_pc = "idle"
    /\ f_result = "pending"
    /\ f_log = <<>>
    /\ f_sleeps = <<>>

InitFetchRun ==
    /\ f_impl \in Impls
    /\ f_attempt = 0
    /\ f_pc = "request"
    /\ f_result = "pending"
    /\ f_log = <<>>
    /\ f_sleeps = <<>>

\* one pass through the loop body: the request ends in outcome o
Attempt(o) ==
    /\ f_pc = "request"
    /\ f_log' = Append(f_log, o)
    /\ IF o \in Retried(f_impl)
       THEN /\ f_pc' = "sleep"
            /\ f_sleeps' = Append(f_sleeps, SleepTime(f_impl, o, f_attempt))
            /\ f_result' = f_result
       ELSE /\ f_pc' = "returned"
            /\ f_result' = Returned(o)
            /\ f_sleeps' = f_sleeps
    /\ UNCHANGED <<f_impl, f_attempt>>
    /\ UNCHANGED <<enrichVars, pageVars, restVars>>

\* a loop that goes on for as long as the outcome is retried
NextAttemptUnbounded ==
    /\ f_pc = "sleep"
    /\ f_attempt' = f_attempt + 1
    /\ f_pc' = "request"
    /\ UNCHANGED <<f_impl, f_result, f_log, f_sleeps>>
    /\ UNCHANGED <<enrichVars, pageVars, restVars>>

\* the sleep is over: next iteration of `for attempt in range(max_retries)`,
\* or `return None` after the loop
NextAttempt ==
    /\ f_pc = "sleep"
    /\ f_attempt' = f_attempt + 1
    /\ IF f_attempt + 1 < max_retries
       THEN /\ f_pc' = "request"
            /\ f_result' = f_result
       ELSE /\ f_pc' = "returned"
            /\ f_result' = "None"
    /\ UNCHANGED <<f_impl, f_log, f_sleeps>>
    /\ UNCHANGED <<enrichVars, pageVars, restVars>>

NextFetch ==
    \/ \E o \in Outcomes : Attempt(o)
    \/ NextAttempt

(***************************************************************************)
(* Diary paginator                                                         *)
(***************************************************************************)
\* a page fetch that raised (transport error, timeout, raise_for_status)
FetchError == -1

\* a page that was fetched and whose parsing raised
ParseError == -2

\* the records parsed from page p when n entries are found on it
PageFilms(p, n) == [k \in 1..n |-> <<p, k>>]

RECURSIVE ConcatPages(_, _)
\* the records of the pages of a log, in page order, from page p on
ConcatPages(log, p) ==
    IF p > Len(log) THEN <<>>
    ELSE PageFilms(p, log[p]) \o ConcatPages(log, p + 1)

InitIdlePages ==
    /\ max_pages = None
    /\ max_films = None
    /\ pg_pc = "idle"
    /\ current_page = 1
    /\ all_films = <<>>
    /\ pg_log = <<>>
    /\ pages_fetched = 0
    /\ pg_in_flight = {}
    /\ page_delays = 0

InitPagesRun ==
    /\ max_pages \in {None} \cup 0..MaxCap
    /\ max_films \in {None} \cup 0..MaxCap
    /\ pg_pc = "fetch"
    /\ current_page = 1
    /\ all_films = <<>>
    /\ pg_log = <<>>
    /\ pages_fetched = 0
    /\ pg_in_flight = {}
    /\ page_delays = 0

\* a paginator that requests the next page while the delay still runs
RequestPageEarly ==
    /\ pg_pc \in {"fetch", "sleep"}
    /\ pg_pc' = "fetching"
    /\ pg_in_flight' = pg_in_flight \cup {current_page}
    /\ UNCHANGED <<max_pages, max_films, current_page, all_films, pg_log,
                   pages_fetched, page_delays>>
    /\ UNCHANGED <<enrichVars, fetchVars, restVars>>

\* the top of the loop: build the url of current_page and await
\* requests.get in a thread
RequestPage ==
    /\ pg_pc = "fetch"
    /\ pg_pc' = "fetching"
    /\ pg_in_flight' = pg_in_flight \cup {current_page}
    /\ UNCHANGED <<max_pages, max_films, current_page, all_films, pg_log,
                   pages_fetched, page_delays>>
    /\ UNCHANGED <<enrichVars, fetchVars, restVars>>

\* a paginator that fetches the failed page again
FetchPageFailsRetried ==
    /\ pg_pc = "fetching"
    /\ pg_log' = Append(pg_log, FetchError)
    /\ UNCHANGED <<max_pages, max_films, pg_pc, current_page, all_films,
                   pages_fetched, pg_in_flight, page_delays>>
    /\ UNCHANGED <<enrichVars, fetchVars, restVars>>

\* requests.get or raise_for_status raises: `break`, then return all_films
FetchPageFails ==
    /\ pg_pc = "fetching"
    /\ pg_log' = Append(pg_log, FetchError)
    /\ pg_pc' = "done"
    /\ pg_in_flight' = pg_in_flight \ {current_page}
    /\ UNCHANGED <<max_pages, max_films, current_page, all_films,
                   pages_fetched, page_delays>>
    /\ UNCHANGED <<enrichVars, fetchVars, restVars>>

\* the page is fetched and _parse_films_from_html raises: the outer
\* `except Exception` prints the error, then return all_films
ParsePageFails ==
    /\ pg_pc = "fetching"
    /\ pg_log' = Append(pg_log, ParseError)
    /\ pg_pc' = "done"
    /\ pg_in_flight' = pg_in_flight \ {current_page}
    /\ UNCHANGED <<max_pages, max_films, current_page, all_films,
                   pages_fetched, page_delays>>
    /\ UNCHANGED <<enrichVars, fetchVars, restVars>>

\* the page is fetched and n records are parsed from it
FetchPage(n) ==
    /\ pg_pc = "fetching"
    /\ current_page > MaxPage => n = 0
    /\ pg_log' = Append(pg_log, n)
    /\ pages_fetched' = pages_fetched + 1
    /\ pg_in_flight' = pg_in_flight \ {current_page}
    /\ LET extended == all_films \o PageFilms(current_page, n) IN
       IF n = 0
       THEN /\ pg_pc' = "done"
            /\ UNCHANGED <<all_films, current_page>>
       ELSE IF Truthy(max_films) /\ Len(extended) >= max_films
       THEN /\ all_films' = SubSeq(extended, 1, max_films)
            /\ pg_pc' = "done"
            /\ UNCHANGED current_page
       ELSE IF Truthy(max_pages) /\ current_page >= max_pages
       THEN /\ all_films' = extended
            /\ pg_pc' = "done"
            /\ UNCHANGED current_page
       ELSE /\ all_films' = extended
            /\ current_page' = current_page + 1
            /\ pg_pc' = "sleep"
    /\ UNCHANGED <<max_pages, max_films, page_delays>>
    /\ UNCHANGED <<enrichVars, fetchVars, restVars>>

\* await asyncio.sleep(self.request_delay) is over
PageDelay ==
    /\ pg_pc = "sleep"
    /\ pg_pc' = "fetch"
    /\ page_delays' = page_delays + 1
    /\ UNCHANGED <<max_pages, max_films, current_page, all_films, pg_log,
                   pages_fetched, pg_in_flight>>
    /\ UNCHANGED <<enrichVars, fetchVars, restVars>>

NextPages ==
    \/ RequestPage
    \/ FetchPageFails
    \/ ParsePageFails
    \/ \E n \in 0..MaxPerPage : FetchPage(n)
    \/ PageDelay

(***************************************************************************)
(* run_scrape: the whole run, with the paginator reduced to the records    *)
(* it returns for a year and the enrichment to how it ended                *)
(***************************************************************************)
\* the years a diary is modelled for, one of them below the lower bound
Years == (LowerBoundYear - 1)..(LowerBoundYear + MaxYearSpan)

\* films = await scraper.scrape_all_pages(max_pages=None, max_films=None)
YearFilms(y) ==
    IF y \in DOMAIN diary THEN [k \in 1..diary[y] |-> <<y, k>>] ELSE <<>>

NoReport == [success |-> "unset", error |-> "unset"]

InitIdleRun ==
    /\ is_all = FALSE
    /\ req_year = None
    /\ diary = [y \in Years |-> 0]
    /\ current_year = None
    /\ year_to_scrape = None
    /\ years_scraped = <<>>
    /\ scrapers = <<>>
    /\ run_films = <<>>
    /\ run_enrich = "not_called"
    /\ run_enrich_failed = 0
    /\ run_stats = FALSE
    /\ report = NoReport
    /\ run_pc = "idle"

\* the state on entry to one of the two branches of run_scrape
InitRunScrape ==
    /\ diary \in [Years -> 0..MaxYearFilms]
    /\ is_all \in BOOLEAN
    /\ IF is_all
       THEN /\ req_year = None
            /\ current_year \in LowerBoundYear..(LowerBoundYear + MaxYearSpan)
            /\ year_to_scrape = current_year
            /\ run_pc = "loop"
       ELSE /\ req_year \in Years
            /\ current_year = None
            /\ year_to_scrape = None
            /\ run_pc = "single"
    /\ years_scraped = <<>>
    /\ scrapers = <<>>
    /\ run_films = <<>>
    /\ run_enrich = "not_called"
    /\ run_enrich_failed = 0
    /\ run_stats = FALSE
    /\ report = NoReport

\* a loop that goes on below the lower bound
LoopUnbounded == TRUE

\* while year_to_scrape >= 2000
LoopGuard == year_to_scrape >= LowerBoundYear

\* one iteration of the all-years loop that finds records
ScrapeYear ==
    /\ run_pc = "loop"
    /\ LoopGuard
    /\ YearFilms(year_to_scrape) # <<>>
    /\ scrapers' = Append(scrapers, year_to_scrape)
    /\ run_films' = run_films \o YearFilms(year_to_scrape)
    /\ years_scraped' = Append(years_scraped, year_to_scrape)
    /\ year_to_scrape' = year_to_scrape - 1
    /\ UNCHANGED <<is_all, req_year, diary, current_year, run_enrich,
                   run_enrich_failed, run_stats, report, run_pc>>
    /\ UNCHANGED <<enrichVars, fetchVars, pageVars, statVars, scoreVars,
                   rankVars,
                   viewVars>>

\* the iteration that finds none: `if not films: break`
ScrapeYearEmpty ==
    /\ run_pc = "loop"
    /\ LoopGuard
    /\ YearFilms(year_to_scrape) = <<>>
    /\ scrapers' = Append(scrapers, year_to_scrape)
    /\ run_pc' = "check"
    /\ UNCHANGED <<is_all, req_year, diary, current_year, year_to_scrape,
                   years_scraped, run_films, run_enrich, run_enrich_failed,
                   run_stats, report>>
    /\ UNCHANGED <<enrichVars, fetchVars, pageVars, statVars, scoreVars,
                   rankVars,
                   viewVars>>

\* the loop condition fails
LoopExit ==
    /\ run_pc = "loop"
    /\ ~LoopGuard
    /\ run_pc' = "check"
    /\ UNCHANGED <<is_all, req_year, diary, current_year, year_to_scrape,
                   years_scraped, scrapers, run_films, run_enrich,
                   run_enrich_failed, run_stats, report>>
    /\ UNCHANGED <<enrichVars, fetchVars, pageVars, statVars, scoreVars,
                   rankVars,
                   viewVars>>

\* `if not all_films: return {...}` after the loop
CheckAllFilms ==
    /\ run_pc = "check"
    /\ IF run_films = <<>>
       THEN /\ report' = [success |-> "false", error |-> "no_films_any_year"]
            /\ run_pc' = "returned"
       ELSE /\ run_pc' = "enrich"
            /\ UNCHANGED report
    /\ UNCHANGED <<is_all, req_year, diary, current_year, year_to_scrape,
                   years_scraped, scrapers, run_films, run_enrich,
                   run_enrich_failed, run_stats>>
    /\ UNCHANGED <<enrichVars, fetchVars, pageVars, statVars, scoreVars,
                   rankVars,
                   viewVars>>

\* the single-year branch up to the enrichment
ScrapeSingle ==
    /\ run_pc = "single"
    /\ scrapers' = Append(scrapers, req_year)
    /\ IF YearFilms(req_year) = <<>>
       THEN /\ report' = [success |-> "false", error |-> "no_films"]
            /\ run_pc' = "returned"
            /\ UNCHANGED run_films
       ELSE /\ run_films' = YearFilms(req_year)
            /\ run_pc' = "enrich"
            /\ UNCHANGED report
    /\ UNCHANGED <<is_all, req_year, diary, current_year, year_to_scrape,
                   years_scraped, run_enrich, run_enrich_failed, run_stats>>
    /\ UNCHANGED <<enrichVars, fetchVars, pageVars, statVars, scoreVars,
                   rankVars,
                   viewVars>>

\* await scraper.enrich_films(...) returns, k of the films not enriched
EnrichReturns(k) ==
    /\ run_pc = "enrich"
    /\ run_enrich' = "returned"
    /\ run_enrich_failed' = k
    /\ run_pc' = "stats"
    /\ UNCHANGED <<is_all, req_year, diary, current_year, year_to_scrape,
                   years_scraped, scrapers, run_films, run_stats, report>>
    /\ UNCHANGED <<enrichVars, fetchVars, pageVars, statVars, scoreVars,
                   rankVars,
                   viewVars>>

\* an exception of the enrichment that leaves run_scrape
EnrichRaisesOut ==
    /\ run_pc = "enrich"
    /\ run_enrich' = "raised"
    /\ run_enrich_failed' = Len(run_films)
    /\ run_pc' = "raised"
    /\ UNCHANGED <<is_all, req_year, diary, current_year, year_to_scrape,
                   years_scraped, scrapers, run_films, run_stats, report>>
    /\ UNCHANGED <<enrichVars, fetchVars, pageVars, statVars, scoreVars,
                   rankVars,
                   viewVars>>

\* enrich_films raises: `except Exception as e: pass`
EnrichRaises ==
    /\ run_pc = "enrich"
    /\ run_enrich' = "raised"
    /\ run_enrich_failed' = Len(run_films)
    /\ run_pc' = "stats"
    /\ UNCHANGED <<is_all, req_year, diary, current_year, year_to_scrape,
                   years_scraped, scrapers, run_films, run_stats, report>>
    /\ UNCHANGED <<enrichVars, fetchVars, pageVars, statVars, scoreVars,
                   rankVars,
                   viewVars>>

\* DataFrame, StatCollector, aggregations and the returned report
ComputeStats ==
    /\ run_pc = "stats"
    /\ run_stats' = TRUE
    /\ report' = [success |-> "true", error |-> "none"]
    /\ run_pc' = "returned"
    /\ UNCHANGED <<is_all, req_year, diary, current_year, year_to_scrape,
                   years_scraped, scrapers, run_films, run_enrich,
                   run_enrich_failed>>
    /\ UNCHANGED <<enrichVars, fetchVars, pageVars, statVars, scoreVars,
                   rankVars,
                   viewVars>>

NextRun ==
    \/ ScrapeYear
    \/ ScrapeYearEmpty
    \/ LoopExit
    \/ CheckAllFilms
    \/ ScrapeSingle
    \/ \E k \in 0..Len(run_films) : EnrichReturns(k)
    \/ EnrichRaises
    \/ ComputeStats

(***************************************************************************)
(* StatCollector.__init__: the full set and the canonical set              *)
(*                                                                         *)
(* A DataFrame is a sequence of rows.  A row is a record with its index    *)
(* label, movie_name (titles are numbered in alphabetical order), rating   *)
(* in half stars or NaN, and `entry`, which stands for the other columns   *)
(* of the diary entry (watch date, enrichment fields).                     *)
(***************************************************************************)
Titles == 1..NumTitles

RatingValues == {NaN} \cup (0..MaxRating)

Row(i, t, r, e) == [index |-> i, movie_name |-> t, rating |-> r, entry |-> e]

\* the frames create_dataframe builds: a RangeIndex and one row per record
DataFrame(c, n) == [k \in 1..n |-> Row(k - 1, c[k][1], c[k][2], k)]

\* a missing rating placed above every rating
FillNaHigh(r) == IF r = NaN THEN 2 * (MaxRating + 1) ELSE r

\* Series.fillna(-1) of the rating column, in half stars
FillNa(r) == IF r = NaN THEN 2 * FillValue ELSE r

\* tmp["_rating_sort"] = tmp["rating"].fillna(-1)
WithRatingSort(d) ==
    [k \in 1..Len(d) |->
        [index |-> d[k].index, movie_name |-> d[k].movie_name,
         rating |-> d[k].rating, entry |-> d[k].entry,
         rating_sort |-> FillNa(d[k].rating)]]

\* the order of sort_values(["movie_name", "_rating_sort"],
\* ascending=[True, False]): a sorts strictly before b
Before(a, b) ==
    \/ a.movie_name < b.movie_name
    \/ a.movie_name = b.movie_name /\ a.rating_sort > b.rating_sort

\* x put in front of the first row it does not sort after
RECURSIVE InsertFirst(_, _)

InsertFirst(x, d) ==
    IF d = <<>> THEN <<x>>
    ELSE IF Before(Head(d), x) THEN <<Head(d)>> \o InsertFirst(x, Tail(d))
    ELSE <<x>> \o d

\* x put in front of the first row it sorts strictly before, so behind the
\* rows with equal keys already placed
RECURSIVE Insert(_, _)

Insert(x, d) ==
    IF d = <<>> THEN <<x>>
    ELSE IF Before(x, Head(d)) THEN <<x>> \o d
    ELSE <<Head(d)>> \o Insert(x, Tail(d))

\* a sort that puts rows with equal keys in reverse order
RECURSIVE SortValuesUnstable(_)

SortValuesUnstable(d) ==
    IF d = <<>> THEN <<>>
    ELSE InsertFirst(Last(d), SortValuesUnstable(SubSeq(d, 1, Len(d) - 1)))

\* DataFrame.sort_values on several columns: a stable sort
RECURSIVE SortValues(_)

SortValues(d) ==
    IF d = <<>> THEN <<>>
    ELSE Insert(Last(d), SortValues(SubSeq(d, 1, Len(d) - 1)))

\* every row kept
KeepAllRows(d) == d

\* drop_duplicates(subset=["movie_name"], keep="first")
DropDuplicates(d) ==
    LET first(k) == \A j \in 1..(k - 1) : d[j].movie_name # d[k].movie_name
        RECURSIVE keep(_)
        keep(k) == IF k > Len(d) THEN <<>>
                   ELSE IF first(k) THEN <<d[k]>> \o keep(k + 1)
                   ELSE keep(k + 1)
    IN  keep(1)

\* .drop(columns=["_rating_sort"], errors="ignore")
DropRatingSort(d) ==
    [k \in 1..Len(d) |->
        Row(d[k].index, d[k].movie_name, d[k].rating, d[k].entry)]

\* .reset_index(drop=True)
ResetIndex(d) ==
    [k \in 1..Len(d) |->
        Row(k - 1, d[k].movie_name, d[k].rating, d[k].entry)]

\* self.df taken from the sorted frame
SortedCopy(d) == DropRatingSort(SortValues(WithRatingSort(d)))

\* self.df = df.copy()
Copy(d) == d

\* lines 35-38: tmp and self.df_unique
Deduplicate(d) ==
    ResetIndex(DropRatingSort(DropDuplicates(SortValues(WithRatingSort(Copy(d))))))

\* self.df.groupby("movie_name").size().to_dict()
RewatchCounts(d) ==
    [t \in {d[k].movie_name : k \in 1..Len(d)} |->
        Cardinality({k \in 1..Len(d) : d[k].movie_name = t})]

InitIdleStat ==
    /\ df = <<>>
    /\ self_df = <<>>
    /\ rewatch_counts = <<>>
    /\ df_unique = <<>>
    /\ self_df2 = <<>>
    /\ df_unique2 = <<>>
    /\ sc_pc = "idle"

InitStat ==
    /\ \E n \in 0..MaxRecords :
         \E c \in [1..n -> Titles \X RatingValues] : df = DataFrame(c, n)
    /\ self_df = <<>>
    /\ rewatch_counts = <<>>
    /\ df_unique = <<>>
    /\ self_df2 = <<>>
    /\ df_unique2 = <<>>
    /\ sc_pc = "new"

\* StatCollector(df)
Construct ==
    /\ sc_pc = "new"
    /\ self_df' = Copy(df)
    /\ rewatch_counts' = RewatchCounts(self_df')
    /\ df_unique' = Deduplicate(self_df')
    /\ sc_pc' = "built"
    /\ UNCHANGED <<df, self_df2, df_unique2>>
    /\ UNCHANGED <<enrichVars, fetchVars, pageVars, runVars, scoreVars,
                   rankVars,
                   viewVars>>

\* StatCollector(collector.df): the constructor run on the full set it kept
ConstructAgain ==
    /\ sc_pc = "built"
    /\ self_df2' = Copy(self_df)
    /\ df_unique2' = Deduplicate(self_df2')
    /\ sc_pc' = "rebuilt"
    /\ UNCHANGED <<df, self_df, rewatch_counts, df_unique>>
    /\ UNCHANGED <<enrichVars, fetchVars, pageVars, runVars, scoreVars,
                   rankVars,
                   viewVars>>

NextStat ==
    \/ Construct
    \/ ConstructAgain

(***************************************************************************)
(* The three score functions                                               *)
(*                                                                         *)
(* A float is modelled as the fraction num/den (den > 0) it stands for.    *)
(* `eps` is 1 when the double the code returns lies above that fraction    *)
(* by a rounding residue (about 1e-16), and 0 otherwise.                   *)
(***************************************************************************)
Rat(n, d) == [num |-> n, den |-> d, eps |-> 0]

Zero == Rat(0, 1)

RECURSIVE GCD(_, _)

GCD(a, b) == IF b = 0 THEN a ELSE GCD(b, a % b)

\* x < y
ScoreLess(x, y) ==
    LET g == GCD(x.den, y.den)
        l == x.num * (y.den \div g)
        r == y.num * (x.den \div g)
    IN  l < r \/ (l = r /\ x.eps < y.eps)

ScoreLeq(x, y) == ~ScoreLess(y, x)

\* avg_rating = sum(ratings) / len(ratings), ratings in half stars
AvgScore(a) == Rat(a[1], 2 * a[2])

\* avg_rating is None
NoAvg(a) == a[2] = 0

\* the natural logarithm of the primes, in millionths
LnPrime ==
    (2 :> 693147) @@ (3 :> 1098612) @@ (5 :> 1609438) @@ (7 :> 1945910) @@
    (11 :> 2397895) @@ (13 :> 2564949) @@ (17 :> 2833213) @@ (19 :> 2944439)

\* math.log(k) in millionths, the sum of the logarithms of k's prime factors
RECURSIVE Ln(_)

Ln(k) ==
    IF k = 1 THEN 0
    ELSE LET p == CHOOSE q \in DOMAIN LnPrime :
                     /\ k % q = 0
                     /\ \A q2 \in DOMAIN LnPrime : k % q2 = 0 => q <= q2
         IN  LnPrime[p] + Ln(k \div p)

\* _weighted_average_score
WeightedScore(a, n) ==
    IF NoAvg(a) \/ n = 0 THEN Zero
    ELSE Rat(a[1] * Ln(n + 1), 2 * a[2] * 1000000)

\* a Bayesian average whose prior mean is the top rating
BayesianHighPrior(a, n) ==
    IF NoAvg(a) \/ n = 0 THEN Zero
    ELSE Rat(n * a[1] + 2 * a[2] * bayes_c * 5, 2 * a[2] * (n + bayes_c))

\* _bayesian_average_score: (count * avg_rating + c * m) / (count + c)
BayesianScore(a, n) ==
    IF NoAvg(a) \/ n = 0 THEN Zero
    ELSE Rat(n * a[1] + 2 * a[2] * bayes_c * bayes_m, 2 * a[2] * (n + bayes_c))

\* the largest r in lo..hi with r * r <= x
RECURSIVE RootIn(_, _, _)

RootIn(lo, hi, x) ==
    IF lo = hi THEN lo
    ELSE LET mid == (lo + hi + 1) \div 2
         IN  IF mid * mid <= x THEN RootIn(mid, hi, x)
             ELSE RootIn(lo, mid - 1, x)

\* math.sqrt rounded down to an integer
ISqrt(x) == RootIn(0, IF x < 46340 THEN x ELSE 46340, x)

\* The counts up to 40 at which lines 192-195, evaluated in IEEE-754 double
\* arithmetic with p_hat = 0.0, give center - margin > 0 (1.39e-16 at count
\* 11).  There center is (z*z/(2*count))/denominator and margin is
\* z*sqrt(z*z/(4*count*count))/denominator: the same real number, whose two
\* doubles differ in the last place.
ResidueCounts == {11, 22, 27}

\* max(0, min(5, x))
Clamp(x) ==
    LET low == IF ScoreLess(x, Rat(5, 1)) THEN x ELSE Rat(5, 1)
    IN  IF ScoreLess(Zero, low) THEN low ELSE Zero

\* _wilson_score for a numeric avg_rating s/(2l), so p_hat = s/(10l).
\* With z = z_num/z_den = 49/25 and over common denominators,
\*   center = A/B and margin = z_num*sqrt(X)/B, where
\*   A = 125*n*s + 2401*l,  X = 25*n*s*(10*l - s) + 2401*l*l,
\*   B = 2*l*(625*n + 2401).
\* The square root is rounded down to an integer, which puts the score
\* above the exact value by less than 5/B; it is exact for p_hat = 0 and 1.
WilsonScore(a, n) ==
    IF n = 0 THEN Zero
    ELSE LET s == a[1]
             l == a[2]
             zz == z_num * z_num
             dd == z_den * z_den
             A == (dd \div 5) * n * s + zz * l
             X == (dd \div 25) * n * s * (10 * l - s) + zz * l * l
             B == 2 * l * (dd * n + zz)
             wilson5 == Rat(5 * (A - ISqrt(zz * X)), B)
         IN  IF s = 0 /\ n \in ResidueCounts
             THEN [Clamp(wilson5) EXCEPT !.eps = 1]
             ELSE Clamp(wilson5)

\* the averages of 1..MaxRated ratings between 0.0 and 5.0, and None
Averages ==
    {<<0, 0>>} \cup {<<s, l>> \in (0..(10 * MaxRated)) \X (1..MaxRated) :
                        s <= 10 * l}

InitIdleScore ==
    /\ score_kind = "none"
    /\ avg_rating = <<0, 0>>
    /\ count = 0
    /\ scores = <<>>

\* _wilson_score is only called with a numeric avg_rating
InitScore ==
    /\ score_kind \in {"weighted", "bayesian", "wilson"}
    /\ avg_rating \in Averages
    /\ score_kind = "wilson" => ~NoAvg(avg_rating)
    /\ count = 0
    /\ scores = <<>>

CallWeighted ==
    /\ score_kind = "weighted"
    /\ count <= MaxCount
    /\ scores' = scores @@ (count :> WeightedScore(avg_rating, count))
    /\ count' = count + 1
    /\ UNCHANGED <<score_kind, avg_rating>>
    /\ UNCHANGED <<enrichVars, fetchVars, pageVars, runVars, statVars,
                   rankVars,
                   viewVars>>

CallBayesian ==
    /\ score_kind = "bayesian"
    /\ count <= MaxCount
    /\ scores' = scores @@ (count :> BayesianScore(avg_rating, count))
    /\ count' = count + 1
    /\ UNCHANGED <<score_kind, avg_rating>>
    /\ UNCHANGED <<enrichVars, fetchVars, pageVars, runVars, statVars,
                   rankVars,
                   viewVars>>

CallWilson ==
    /\ score_kind = "wilson"
    /\ count <= MaxCount
    /\ scores' = scores @@ (count :> WilsonScore(avg_rating, count))
    /\ count' = count + 1
    /\ UNCHANGED <<score_kind, avg_rating>>
    /\ UNCHANGED <<enrichVars, fetchVars, pageVars, runVars, statVars,
                   rankVars,
                   viewVars>>

NextScore ==
    \/ CallWeighted
    \/ CallBayesian
    \/ CallWilson

(***************************************************************************)
(* aggregate_list_field and the top_by_* rankings                          *)
(*                                                                         *)
(* A canonical row is reduced to its rating and the list in the facet's    *)
(* column.  self.stats[metric_name] is a dict: it is modelled as the       *)
(* sequence of its entries in insertion order.                             *)
(***************************************************************************)
Items == 1..NumItems

\* the ratings of the canonical rows: none, 2.0 and 4.0 stars
FacetRatings == {NaN, 4, 8}

\* the items of a set as a list, in ascending order
RECURSIVE Listed(_)

Listed(S) ==
    IF S = {} THEN <<>>
    ELSE LET m == CHOOSE x \in S : \A y \in S : x <= y
         IN  <<m>> \o Listed(S \ {m})

UniqueFrames ==
    UNION {[1..n -> {[rating |-> r, items |-> Listed(S)] :
                        r \in FacetRatings, S \in SUBSET Items}] :
              n \in 0..MaxRows}

\* the position of an item's entry in the dict, 0 if it has none
PositionOf(agg, item) ==
    IF \E k \in 1..Len(agg) : agg[k].item = item
    THEN CHOOSE k \in 1..Len(agg) : agg[k].item = item
    ELSE 0

\* an item counted only in the rows that carry a rating
AddItemIfRated(agg, item, rating) ==
    IF rating = NaN THEN agg
    ELSE LET k == PositionOf(agg, item)
             known == IF k = 0
                      THEN Append(agg, [item |-> item, count |-> 0,
                                        ratings |-> <<>>])
                      ELSE agg
             j == IF k = 0 THEN Len(known) ELSE k
         IN  [known EXCEPT ![j].count = @ + 1,
                           ![j].ratings = Append(@, rating)]

\* lines 75-80: one item of one row
AddItem(agg, item, rating) ==
    LET k == PositionOf(agg, item)
        known == IF k = 0
                 THEN Append(agg, [item |-> item, count |-> 0, ratings |-> <<>>])
                 ELSE agg
        j == IF k = 0 THEN Len(known) ELSE k
    IN  [known EXCEPT ![j].count = @ + 1,
                      ![j].ratings = IF rating = NaN THEN @
                                     ELSE Append(@, rating)]

\* for item in items
RECURSIVE AddItems(_, _, _)

AddItems(agg, items, rating) ==
    IF items = <<>> THEN agg
    ELSE AddItems(AddItem(agg, Head(items), rating), Tail(items), rating)

\* for _, row in self.df_unique.iterrows()
RECURSIVE AddRows(_, _)

AddRows(agg, rows) ==
    IF rows = <<>> THEN agg
    ELSE AddRows(AddItems(agg, Head(rows).items, Head(rows).rating),
                 Tail(rows))

RECURSIVE Sum(_)

Sum(r) == IF r = <<>> THEN 0 ELSE Head(r) + Sum(Tail(r))

\* data["avg_rating"] = sum(ratings) / len(ratings) if ratings else None
AvgRating(ratings) == <<Sum(ratings), Len(ratings)>>

\* aggregate_list_field
AggregateListField(rows) ==
    LET agg == AddRows(<<>>, rows)
    IN  [k \in 1..Len(agg) |->
            [item |-> agg[k].item, count |-> agg[k].count,
             avg_rating |-> AvgRating(agg[k].ratings)]]

\* a filter that lets every entry through
AnyEntry(e) == TRUE

\* if data.get("avg_rating") is not None
Rated(e) == ~NoAvg(e.avg_rating)

\* the score of one entry under one of the rankings
ScoreOf(kind, e) ==
    CASE kind = "weighted" -> WeightedScore(e.avg_rating, e.count)
      [] kind = "bayesian" -> BayesianScore(e.avg_rating, e.count)
      [] kind = "wilson" -> WilsonScore(e.avg_rating, e.count)
      [] kind = "count" -> Rat(e.count, 1)

\* the tuples of the list comprehension
Tuples(kind, agg) ==
    [k \in 1..Len(agg) |->
        [item |-> agg[k].item, score |-> ScoreOf(kind, agg[k]),
         count |-> agg[k].count, avg_rating |-> agg[k].avg_rating]]

\* x put in front of the first tuple whose score is not above its own
RECURSIVE InsertAhead(_, _)

InsertAhead(x, d) ==
    IF d = <<>> THEN <<x>>
    ELSE IF ScoreLess(x.score, Head(d).score)
         THEN <<Head(d)>> \o InsertAhead(x, Tail(d))
         ELSE <<x>> \o d

\* x put in front of the first tuple whose score is below its own, so
\* behind the tuples of equal score already placed
RECURSIVE InsertBehind(_, _)

InsertBehind(x, d) ==
    IF d = <<>> THEN <<x>>
    ELSE IF ScoreLess(Head(d).score, x.score) THEN <<x>> \o d
         ELSE <<Head(d)>> \o InsertBehind(x, Tail(d))

\* a descending sort that reverses the order of equal scores
RECURSIVE SortedTiesReversed(_)

SortedTiesReversed(d) ==
    IF d = <<>> THEN <<>>
    ELSE InsertAhead(Last(d), SortedTiesReversed(SubSeq(d, 1, Len(d) - 1)))

\* sorted(items, key=lambda x: x[1], reverse=True): stable
RECURSIVE SortedReverse(_)

SortedReverse(d) ==
    IF d = <<>> THEN <<>>
    ELSE InsertBehind(Last(d), SortedReverse(SubSeq(d, 1, Len(d) - 1)))

\* [:n] for n >= 0
Slice(d, n) == SubSeq(d, 1, IF n < Len(d) THEN n ELSE Len(d))

\* the body of a score ranking once the metric is known
TopByScore(kind, agg, n) ==
    Slice(SortedReverse(Tuples(kind, SelectSeq(agg, Rated))), n)

\* the score functions do arithmetic on avg_rating: a TypeError when an
\* entry without one passes the filter
ScoreRaises(agg) ==
    \E k \in 1..Len(agg) : Rated(agg[k]) /\ NoAvg(agg[k].avg_rating)

InitIdleRank ==
    /\ unique_rows = <<>>
    /\ stats = <<>>
    /\ rk_pc = "idle"
    /\ rank_kind = "none"
    /\ top_n = 0
    /\ ranking = <<>>

\* a StatCollector just built: no metric aggregated yet
InitRank ==
    /\ unique_rows \in UniqueFrames
    /\ stats = <<>>
    /\ rk_pc = "new"
    /\ rank_kind = "none"
    /\ top_n = 0
    /\ ranking = <<>>

\* aggregate_list_field(field_name, metric_name)
Aggregate ==
    /\ rk_pc = "new"
    /\ stats' = AggregateListField(unique_rows)
    /\ rk_pc' = "aggregated"
    /\ UNCHANGED <<unique_rows, rank_kind, top_n, ranking>>
    /\ UNCHANGED <<enrichVars, fetchVars, pageVars, runVars, statVars,
                   scoreVars,
                   viewVars>>

\* a ranking asked for before the metric was aggregated:
\* `if metric_name not in self.stats: return []`
TopByUnknownMetric(kind, n) ==
    /\ rk_pc = "new"
    /\ rank_kind' = kind
    /\ top_n' = n
    /\ ranking' = <<>>
    /\ rk_pc' = "ranked"
    /\ UNCHANGED <<unique_rows, stats>>
    /\ UNCHANGED <<enrichVars, fetchVars, pageVars, runVars, statVars,
                   scoreVars,
                   viewVars>>

\* top_by_weighted_average(metric_name, n)
TopByWeightedAverage(n) ==
    /\ rk_pc = "aggregated"
    /\ rank_kind' = "weighted"
    /\ top_n' = n
    /\ IF ScoreRaises(stats)
       THEN /\ rk_pc' = "raised"
            /\ UNCHANGED ranking
       ELSE /\ ranking' = TopByScore("weighted", stats, n)
            /\ rk_pc' = "ranked"
    /\ UNCHANGED <<unique_rows, stats>>
    /\ UNCHANGED <<enrichVars, fetchVars, pageVars, runVars, statVars,
                   scoreVars,
                   viewVars>>

\* top_by_bayesian_average(metric_name, n)
TopByBayesianAverage(n) ==
    /\ rk_pc = "aggregated"
    /\ rank_kind' = "bayesian"
    /\ top_n' = n
    /\ IF ScoreRaises(stats)
       THEN /\ rk_pc' = "raised"
            /\ UNCHANGED ranking
       ELSE /\ ranking' = TopByScore("bayesian", stats, n)
            /\ rk_pc' = "ranked"
    /\ UNCHANGED <<unique_rows, stats>>
    /\ UNCHANGED <<enrichVars, fetchVars, pageVars, runVars, statVars,
                   scoreVars,
                   viewVars>>

\* top_by_wilson_score(metric_name, n)
TopByWilsonScore(n) ==
    /\ rk_pc = "aggregated"
    /\ rank_kind' = "wilson"
    /\ top_n' = n
    /\ IF ScoreRaises(stats)
       THEN /\ rk_pc' = "raised"
            /\ UNCHANGED ranking
       ELSE /\ ranking' = TopByScore("wilson", stats, n)
            /\ rk_pc' = "ranked"
    /\ UNCHANGED <<unique_rows, stats>>
    /\ UNCHANGED <<enrichVars, fetchVars, pageVars, runVars, statVars,
                   scoreVars,
                   viewVars>>

\* top_by_count(metric_name, n)
TopByCount(n) ==
    /\ rk_pc = "aggregated"
    /\ rank_kind' = "count"
    /\ top_n' = n
    /\ ranking' = Slice(SortedReverse(Tuples("count", stats)), n)
    /\ rk_pc' = "ranked"
    /\ UNCHANGED <<unique_rows, stats>>
    /\ UNCHANGED <<enrichVars, fetchVars, pageVars, runVars, statVars,
                   scoreVars,
                   viewVars>>

RankKinds == {"weighted", "bayesian", "wilson", "count"}

NextRank ==
    \/ Aggregate
    \/ \E kind \in RankKinds, n \in 0..MaxTop : TopByUnknownMetric(kind, n)
    \/ \E n \in 0..MaxTop : TopByWeightedAverage(n)
    \/ \E n \in 0..MaxTop : TopByBayesianAverage(n)
    \/ \E n \in 0..MaxTop : TopByWilsonScore(n)
    \/ \E n \in 0..MaxTop : TopByCount(n)

(***************************************************************************)
(* top_rewatched                                                           *)
(***************************************************************************)
\* a title kept whatever its count
AtLeastOnce(c) == c >= 1

\* if count > 1
MoreThanOnce(c) == c > 1

\* self.rewatch_counts.items(): groupby lists the titles in ascending order
RewatchItems(counts) ==
    LET ts == Listed(DOMAIN counts)
    IN  [k \in 1..Len(ts) |->
            [item |-> ts[k], score |-> Rat(counts[ts[k]], 1),
             count |-> counts[ts[k]]]]

Rewatched(x) == MoreThanOnce(x.count)

\* movie_row.iloc[0].get("poster_url"): a column of the canonical row
PosterUrl(unique, movie) ==
    IF \E k \in 1..Len(unique) : unique[k].movie_name = movie
    THEN unique[CHOOSE k \in 1..Len(unique) :
                   /\ unique[k].movie_name = movie
                   /\ \A j \in 1..(k - 1) : unique[j].movie_name # movie].entry
    ELSE None

\* the list top_rewatched returns
TopRewatchedList(counts, unique, n) ==
    LET items == Slice(SortedReverse(SelectSeq(RewatchItems(counts),
                                               Rewatched)), n)
    IN  [k \in 1..Len(items) |->
            [movie |-> items[k].item, count |-> items[k].count,
             poster_url |-> PosterUrl(unique, items[k].item)]]

InitIdleRewatched ==
    /\ top_rewatched_n = 0
    /\ rewatched = <<>>

\* a diary of up to MaxDiary records, each unrated or rated MaxRating
InitDiary ==
    /\ \E n \in 0..MaxDiary :
         \E c \in [1..n -> Titles \X {NaN, MaxRating}] : df = DataFrame(c, n)
    /\ self_df = <<>>
    /\ rewatch_counts = <<>>
    /\ df_unique = <<>>
    /\ self_df2 = <<>>
    /\ df_unique2 = <<>>
    /\ sc_pc = "new"

\* top_rewatched(n)
TopRewatched(n) ==
    /\ sc_pc = "built"
    /\ top_rewatched_n' = n
    /\ rewatched' = TopRewatchedList(rewatch_counts, df_unique, n)
    /\ sc_pc' = "rewatched"
    /\ UNCHANGED <<df, self_df, rewatch_counts, df_unique, self_df2,
                   df_unique2>>
    /\ UNCHANGED <<enrichVars, fetchVars, pageVars, runVars, scoreVars,
                   rankVars, dateVars, hypeVars>>

NextRewatch ==
    \/ Construct
    \/ \E n \in 0..MaxTop : TopRewatched(n)

(***************************************************************************)
(* get_cumulative_timeline_aggregated                                      *)
(*                                                                         *)
(* A watch date is the number of its calendar day, or NaT when the diary   *)
(* record had no date or one that to_datetime could not parse.             *)
(***************************************************************************)
Days == 1..MaxDays

WatchRow(t, d) == [movie_name |-> t, watch_date |-> d]

\* pd.to_datetime(..., errors="coerce")
ToDatetime(v) == IF v \in Days THEN v ELSE NaT

CoerceDates(d) ==
    [k \in 1..Len(d) |-> WatchRow(d[k].movie_name, ToDatetime(d[k].watch_date))]

HasDate(r) == r.watch_date # NaT

\* dropna(subset=["watch_date"])
DropNa(d) == SelectSeq(d, HasDate)

\* groupby(watch_date.dt.date).size().reset_index(name="films_on_day")
GroupByDate(d) ==
    LET ds == Listed({d[k].watch_date : k \in 1..Len(d)})
    IN  [k \in 1..Len(ds) |->
            [date |-> ds[k],
             films_on_day |->
                 Cardinality({j \in 1..Len(d) : d[j].watch_date = ds[k]})]]

\* x put behind the rows of the same or an earlier date
RECURSIVE InsertByDate(_, _)

InsertByDate(x, d) ==
    IF d = <<>> THEN <<x>>
    ELSE IF x.date < Head(d).date THEN <<x>> \o d
         ELSE <<Head(d)>> \o InsertByDate(x, Tail(d))

\* daily_counts.sort_values("date")
RECURSIVE SortByDate(_)

SortByDate(d) ==
    IF d = <<>> THEN <<>>
    ELSE InsertByDate(Last(d), SortByDate(SubSeq(d, 1, Len(d) - 1)))

\* str(row["date"]): the ISO form of the date
IsoDate(d) == <<"iso", d>>

\* a running total that counts the days
AddOneDay(cumulative, films_on_day) == cumulative + 1

\* cumulative += row["films_on_day"]
AddDay(cumulative, films_on_day) == cumulative + films_on_day

\* the loop over daily_counts
RECURSIVE BuildTimeline(_, _)

BuildTimeline(daily, cumulative) ==
    IF daily = <<>> THEN <<>>
    ELSE LET c == AddDay(cumulative, Head(daily).films_on_day)
         IN  <<[date |-> IsoDate(Head(daily).date),
                cumulative_count |-> c,
                films_on_day |-> Head(daily).films_on_day]>>
             \o BuildTimeline(Tail(daily), c)

\* the list get_cumulative_timeline_aggregated returns
CumulativeTimelineAggregated(d) ==
    IF Len(DropNa(d)) = 0 THEN <<>>
    ELSE BuildTimeline(SortByDate(GroupByDate(DropNa(CoerceDates(DropNa(d))))),
                       0)

InitIdleDates ==
    /\ watch_df = <<>>
    /\ vw_pc = "idle"
    /\ timeline = <<>>
    /\ milestones = <<>>


\* a StatCollector built on a diary of up to MaxDiary records
InitDates ==
    /\ \E n \in 0..MaxDiary :
         \E c \in [1..n -> Titles \X (Days \cup {NaT})] :
            watch_df = [k \in 1..n |-> WatchRow(c[k][1], c[k][2])]
    /\ vw_pc = "built"
    /\ timeline = <<>>
    /\ milestones = <<>>

\* get_cumulative_timeline_aggregated()
GetCumulativeTimelineAggregated ==
    /\ vw_pc = "built"
    /\ timeline' = CumulativeTimelineAggregated(watch_df)
    /\ vw_pc' = "timeline"
    /\ UNCHANGED <<watch_df, milestones, top_rewatched_n, rewatched, hypeVars>>
    /\ UNCHANGED <<enrichVars, fetchVars, pageVars, runVars, statVars,
                   scoreVars, rankVars>>

NextTimeline == GetCumulativeTimelineAggregated

(***************************************************************************)
(* get_milestones                                                          *)
(***************************************************************************)
milestone_positions == <<1, 50, 100, 250, 500>>

\* the numbers of records one date can hold in the diaries tried
DayCounts == {0, 1, 49, 50, 100, 249, 250}

\* the two orders in which the sort is taken to leave records of one date
TieOrders == {"kept", "reversed"}

Reverse(d) == [k \in 1..Len(d) |-> d[Len(d) + 1 - k]]

\* the rows of one date, in the order the sort leaves them
DayBucket(d, day, ties) ==
    LET OnDay(r) == r.watch_date = day
        rows == SelectSeq(d, OnDay)
    IN  IF ties = "kept" THEN rows ELSE Reverse(rows)

\* df.sort_values("watch_date"): a quicksort, which orders the dates and
\* leaves the order of the records of one date open
RECURSIVE SortByWatchDate(_, _, _)

SortByWatchDate(d, day, ties) ==
    IF day > MaxDays THEN <<>>
    ELSE DayBucket(d, day, ties) \o SortByWatchDate(d, day + 1, ties)

\* row["watch_date"].strftime("%B %d, %Y")
LongDate(d) == <<"long", d>>

\* the index taken one too far
IndexOfNext(pos) == pos

\* idx = pos - 1
IndexOf(pos) == pos - 1

\* the list get_milestones returns
Milestones(d, ties) ==
    LET sorted == SortByWatchDate(DropNa(CoerceDates(d)), 1, ties)
        Reached(pos) == IndexOf(pos) < Len(sorted)
        reached == SelectSeq(milestone_positions, Reached)
    IN  IF Len(sorted) = 0 THEN <<>>
        ELSE [k \in 1..Len(reached) |->
                 LET row == sorted[IndexOf(reached[k]) + 1]
                 IN  [milestone |-> reached[k],
                      film_name |-> row.movie_name,
                      watch_date |-> LongDate(row.watch_date)]]

\* the dated rows of a diary, oldest first: counts[day] records for each day
RECURSIVE DatedRows(_, _)

DatedRows(counts, day) ==
    IF day > MaxDays THEN <<>>
    ELSE [k \in 1..counts[day] |-> WatchRow(((k - 1) % NumTitles) + 1, day)]
         \o DatedRows(counts, day + 1)

\* a StatCollector built on a long diary: some records for each date and
\* possibly an undated one, listed oldest first or newest first
InitLongDiary ==
    /\ \E counts \in [Days -> DayCounts], undated \in 0..1,
          newest_first \in BOOLEAN :
            LET rows == DatedRows(counts, 1)
                         \o [k \in 1..undated |-> WatchRow(1, NaT)]
            IN  watch_df = IF newest_first THEN Reverse(rows) ELSE rows
    /\ vw_pc = "built"
    /\ timeline = <<>>
    /\ milestones = <<>>

\* get_milestones()
GetMilestones ==
    /\ vw_pc = "built"
    /\ \E ties \in TieOrders : milestones' = Milestones(watch_df, ties)
    /\ vw_pc' = "milestones"
    /\ UNCHANGED <<watch_df, timeline, top_rewatched_n, rewatched, hypeVars>>
    /\ UNCHANGED <<enrichVars, fetchVars, pageVars, runVars, statVars,
                   scoreVars, rankVars>>

NextMilestones == GetMilestones

(***************************************************************************)
(* director_rating_variance and the over/underhyped director rankings      *)
(*                                                                         *)
(* A canonical row is reduced to its rating, the film's avg_rating (both   *)
(* in half stars, or NaN) and its directors.  A weighted score             *)
(* avg_variance * sqrt(num_films) is kept as the pair of the sum v of the  *)
(* variances and the number n of films: it equals v / sqrt(n).             *)
(***************************************************************************)
\* the parameter defaults `min_films: int = 1`
overhyped_min_films == 1

underhyped_min_films == 1

\* rating and avg_rating of the rows tried: either missing, rated below
\* the public average, rated above it
RatingPairs == {<<NaN, 6>>, <<4, NaN>>, <<4, 6>>, <<8, 6>>}

HypeFrames(n) ==
    [1..n -> {[rating |-> p[1], avg_rating |-> p[2], directors |-> Listed(S)] :
                 p \in RatingPairs, S \in SUBSET Items}]

\* not (pd.isna(your_rating) or pd.isna(avg_rating))
BothRated(r) == r.rating # NaN /\ r.avg_rating # NaN

\* director_data[director]["variances"].append(variance)
AddVariance(data, director, variance) ==
    LET k == IF \E j \in 1..Len(data) : data[j].director = director
             THEN CHOOSE j \in 1..Len(data) : data[j].director = director
             ELSE 0
        known == IF k = 0
                 THEN Append(data, [director |-> director, variances |-> <<>>])
                 ELSE data
        j == IF k = 0 THEN Len(known) ELSE k
    IN  [known EXCEPT ![j].variances = Append(@, variance)]

\* for director in directors
RECURSIVE AddVariances(_, _, _)

AddVariances(data, directors, variance) ==
    IF directors = <<>> THEN data
    ELSE AddVariances(AddVariance(data, Head(directors), variance),
                      Tail(directors), variance)

\* for _, row in self.df_unique.iterrows()
RECURSIVE AddHypeRows(_, _)

AddHypeRows(data, rows) ==
    IF rows = <<>> THEN data
    ELSE LET row == Head(rows)
         IN  AddHypeRows(IF BothRated(row)
                         THEN AddVariances(data, row.directors,
                                           row.rating - row.avg_rating)
                         ELSE data,
                         Tail(rows))

\* director_rating_variance(): avg_variance is <<sum, number>>
DirectorRatingVariance(rows) ==
    LET data == AddHypeRows(<<>>, rows)
    IN  [k \in 1..Len(data) |->
            [director |-> data[k].director,
             avg_variance |-> <<Sum(data[k].variances), Len(data[k].variances)>>,
             num_films |-> Len(data[k].variances)]]

\* avg_var * math.sqrt(num_films)
HypeScore(avg_var, num_films) == [v |-> avg_var[1], n |-> num_films]

\* x < y for two weighted scores: v / sqrt(n) has the order of
\* sign(v) * v * v / n
HypeLess(x, y) ==
    LET sq(z) == IF z.v < 0 THEN 0 - z.v * z.v ELSE z.v * z.v
    IN  sq(x) * y.n < sq(y) * x.n

\* a director dropped when it has no more films than the minimum
AtMost(num_films, min_films) == num_films <= min_films

\* if num_films < min_films: continue
TooFew(num_films, min_films) == num_films < min_films

\* the tuples of the loop over director_data
HypeItems(data, min_films) ==
    LET Enough(e) == ~TooFew(e.num_films, min_films)
        kept == SelectSeq(data, Enough)
    IN  [k \in 1..Len(kept) |->
            [director |-> kept[k].director,
             avg_variance |-> kept[k].avg_variance,
             num_films |-> kept[k].num_films,
             weighted_score |-> HypeScore(kept[k].avg_variance,
                                          kept[k].num_films)]]

RECURSIVE InsertDescending(_, _)

InsertDescending(x, d) ==
    IF d = <<>> THEN <<x>>
    ELSE IF HypeLess(Head(d).weighted_score, x.weighted_score) THEN <<x>> \o d
         ELSE <<Head(d)>> \o InsertDescending(x, Tail(d))

\* items.sort(key=lambda x: x[3], reverse=True)
RECURSIVE SortDescending(_)

SortDescending(d) ==
    IF d = <<>> THEN <<>>
    ELSE InsertDescending(Last(d), SortDescending(SubSeq(d, 1, Len(d) - 1)))

RECURSIVE InsertAscending(_, _)

InsertAscending(x, d) ==
    IF d = <<>> THEN <<x>>
    ELSE IF HypeLess(x.weighted_score, Head(d).weighted_score) THEN <<x>> \o d
         ELSE <<Head(d)>> \o InsertAscending(x, Tail(d))

\* items.sort(key=lambda x: x[3], reverse=False)
RECURSIVE SortAscending(_)

SortAscending(d) ==
    IF d = <<>> THEN <<>>
    ELSE InsertAscending(Last(d), SortAscending(SubSeq(d, 1, Len(d) - 1)))

\* the minimum a call works with: the argument, or the default if left out
MinFilms(m, default) == IF m = None THEN default ELSE m

InitIdleHype ==
    /\ hype_rows = <<>>
    /\ hy_pc = "idle"
    /\ hype_kind = "none"
    /\ hype_n = 0
    /\ hype_min = None
    /\ hype_ranking = <<>>

InitIdleView == InitIdleRewatched /\ InitIdleDates /\ InitIdleHype

InitHype ==
    /\ \E n \in 0..MaxRows : hype_rows \in HypeFrames(n)
    /\ hy_pc = "built"
    /\ hype_kind = "none"
    /\ hype_n = 0
    /\ hype_min = None
    /\ hype_ranking = <<>>

\* top_overhyped_directors(n, min_films); m = None: min_films left out
TopOverhypedDirectors(n, m) ==
    /\ hy_pc = "built"
    /\ hype_kind' = "overhyped"
    /\ hype_n' = n
    /\ hype_min' = m
    /\ hype_ranking' =
          Slice(SortDescending(HypeItems(DirectorRatingVariance(hype_rows),
                                         MinFilms(m, overhyped_min_films))), n)
    /\ hy_pc' = "ranked"
    /\ UNCHANGED <<hype_rows, top_rewatched_n, rewatched, dateVars>>
    /\ UNCHANGED <<enrichVars, fetchVars, pageVars, runVars, statVars,
                   scoreVars, rankVars>>

\* top_underhyped_directors(n, min_films); m = None: min_films left out
TopUnderhypedDirectors(n, m) ==
    /\ hy_pc = "built"
    /\ hype_kind' = "underhyped"
    /\ hype_n' = n
    /\ hype_min' = m
    /\ hype_ranking' =
          Slice(SortAscending(HypeItems(DirectorRatingVariance(hype_rows),
                                        MinFilms(m, underhyped_min_films))), n)
    /\ hy_pc' = "ranked"
    /\ UNCHANGED <<hype_rows, top_rewatched_n, rewatched, dateVars>>
    /\ UNCHANGED <<enrichVars, fetchVars, pageVars, runVars, statVars,
                   scoreVars, rankVars>>

\* the calls tried: min_films left out, or 2 as run_scrape passes it for
\* the underhyped ranking
NextHype ==
    \/ \E n \in 0..MaxTop, m \in {None, 2} : TopOverhypedDirectors(n, m)
    \/ \E n \in 0..MaxTop, m \in {None, 2} : TopUnderhypedDirectors(n, m)

(***************************************************************************)
(* Specifications                                                          *)
(***************************************************************************)
\* the components outside the enrichment, the fetcher and the paginator at rest
InitIdleRest ==
    InitIdleRun /\ InitIdleStat /\ InitIdleScore /\ InitIdleRank /\ InitIdleView

Init == InitEnrich /\ InitIdleFetch /\ InitIdlePages /\ InitIdleRest

\* one film with a path, the others without
InitFilm ==
    /\ InitEnrich
    /\ film_path[1] = "Path"
    /\ \A i \in Films : i # 1 => film_path[i] # "Path"
    /\ InitIdleFetch
    /\ InitIdlePages
    /\ InitIdleRest

InitFetch == InitIdleEnrich /\ InitFetchRun /\ InitIdlePages /\ InitIdleRest

InitPages == InitIdleEnrich /\ InitIdleFetch /\ InitPagesRun /\ InitIdleRest

InitRun ==
    /\ InitIdleEnrich
    /\ InitIdleFetch
    /\ InitIdlePages
    /\ InitRunScrape
    /\ InitIdleStat
    /\ InitIdleScore
    /\ InitIdleRank
    /\ InitIdleView

InitDedup ==
    /\ InitIdleEnrich
    /\ InitIdleFetch
    /\ InitIdlePages
    /\ InitIdleRun
    /\ InitStat
    /\ InitIdleScore
    /\ InitIdleRank
    /\ InitIdleView

InitScores ==
    /\ InitIdleEnrich
    /\ InitIdleFetch
    /\ InitIdlePages
    /\ InitIdleRun
    /\ InitIdleStat
    /\ InitScore
    /\ InitIdleRank
    /\ InitIdleView

InitRanks ==
    /\ InitIdleEnrich
    /\ InitIdleFetch
    /\ InitIdlePages
    /\ InitIdleRun
    /\ InitIdleStat
    /\ InitIdleScore
    /\ InitRank
    /\ InitIdleView

InitRewatch ==
    /\ InitIdleEnrich
    /\ InitIdleFetch
    /\ InitIdlePages
    /\ InitIdleRun
    /\ InitDiary
    /\ InitIdleScore
    /\ InitIdleRank
    /\ InitIdleView

InitTimeline ==
    /\ InitIdleEnrich
    /\ InitIdleFetch
    /\ InitIdlePages
    /\ InitIdleRun
    /\ InitIdleStat
    /\ InitIdleScore
    /\ InitIdleRank
    /\ InitIdleRewatched
    /\ InitDates
    /\ InitIdleHype

InitMilestones ==
    /\ InitIdleEnrich
    /\ InitIdleFetch
    /\ InitIdlePages
    /\ InitIdleRun
    /\ InitIdleStat
    /\ InitIdleScore
    /\ InitIdleRank
    /\ InitIdleRewatched
    /\ InitLongDiary
    /\ InitIdleHype

InitHypes ==
    /\ InitIdleEnrich
    /\ InitIdleFetch
    /\ InitIdlePages
    /\ InitIdleRun
    /\ InitIdleStat
    /\ InitIdleScore
    /\ InitIdleRank
    /\ InitIdleRewatched
    /\ InitIdleDates
    /\ InitHype

Spec == Init /\ [][Next]_vars

\* the enrichment under fair scheduling, the run not being cancelled
SpecLive == Init /\ [][NextLive]_vars /\ Fairness

SpecFilm == InitFilm /\ [][NextFilm]_vars

\* one film with a path, each of its four fetches followed on its own
SpecDocs == InitFilm /\ [][NextDocs]_vars

SpecFetch == InitFetch /\ [][NextFetch]_vars

SpecPages == InitPages /\ [][NextPages]_vars

SpecRun == InitRun /\ [][NextRun]_vars

SpecDedup == InitDedup /\ [][NextStat]_vars

SpecScore == InitScores /\ [][NextScore]_vars

SpecRank == InitRanks /\ [][NextRank]_vars

SpecRewatch == InitRewatch /\ [][NextRewatch]_vars

SpecTimeline == InitTimeline /\ [][NextTimeline]_vars

SpecMilestones == InitMilestones /\ [][NextMilestones]_vars

SpecHype == InitHypes /\ [][NextHype]_vars

(***************************************************************************)
(* Properties                                                              *)
(***************************************************************************)

\* C1 (Spec): in every reachable state, whatever the interleaving of the
\* film tasks, the number of films holding a permit of the semaphore is at
\* most max_concurrency, and the permits never go below zero.
BoundedConcurrency ==
    /\ Cardinality({i \in Films : tpc[i] \in {"fetching", "gathered"}})
         <= max_concurrency
    /\ semaphore >= 0

\* every permit is taken while a film with a path still waits for one
WitnessBoundedConcurrency ==
    /\ Cardinality(SlotHolders) = max_concurrency
    /\ semaphore = 0
    /\ \E i \in Films : tpc[i] = "pending" /\ film_path[i] = "Path"

\* C2 (SpecFetch): whatever the outcomes of the attempts, the fetcher issues
\* at most 3 requests, never ends by raising, is never stuck before it has
\* returned, and returns a body or absent; three 429 responses in a row end
\* in absent.
FetchBoundedAndTotal ==
    /\ Len(f_log) <= 3
    /\ f_pc \in {"request", "sleep", "returned"}
    /\ f_pc \in {"request", "sleep"} =>
         /\ f_attempt < 3
         /\ f_result = "pending"
    /\ f_pc = "returned" =>
         /\ f_result \in {"None", "Empty", "Body"}
         /\ f_result = "Body" <=> Last(f_log) = "ok"
         /\ f_result = "Empty" <=> Last(f_log) = "ok_empty"
    /\ f_log = <<"s429", "s429", "s429">> =>
         /\ f_pc \in {"sleep", "returned"}
         /\ f_pc = "returned" => f_result = "None"

\* three 429 responses in a row have ended in absent
WitnessFetchBoundedAndTotal ==
    /\ f_log = <<"s429", "s429", "s429">>
    /\ f_sleeps = <<4, 8, 12>>
    /\ f_pc = "returned"
    /\ f_result = "None"

\* C3 (SpecFetch): a 4xx status other than 429 is the last outcome of the
\* run: the fetcher has returned absent, without a sleep for that attempt,
\* and no request follows, on whichever attempt it is received.
ClientErrorNotRetried ==
    \A k \in 1..Len(f_log) :
        f_log[k] = "s4xx" =>
            /\ k = Len(f_log)
            /\ f_pc = "returned"
            /\ f_result = "None"
            /\ Len(f_sleeps) = k - 1

\* a 404 on the second attempt, after one retried outcome
WitnessClientErrorNotRetried ==
    /\ Len(f_log) = 2
    /\ f_log[2] = "s4xx"
    /\ Len(f_sleeps) = 1
    /\ f_pc = "returned"

\* C4 (SpecFetch), the claim as stated: in both implementations a status
\* >= 500 received when fewer than 3 attempts were made is followed by a
\* sleep (and then by another request).
ServerErrorRetried ==
    (f_log # <<>> /\ Last(f_log) = "s5xx" /\ Len(f_log) < 3) =>
        f_pc = "sleep"

\* C5 (Spec): enrich_films never ends by raising; when it has returned,
\* every film with a path was fetched and merged, also when another film's
\* task raised; and the fields of each film are those of its own four
\* results alone.
FailuresIsolated ==
    /\ co_pc \in {"gather", "returned", "cancelled"}
    /\ co_pc = "returned" =>
         \A i \in Films :
             film_path[i] = "Path" =>
                 /\ tpc[i] = "done"
                 /\ \A d \in Docs : <<i, d>> \in fetched
    /\ \A i \in Films : \A d \in Docs :
         fields[i][d] =
             IF tpc[i] = "done" /\ results[i][d] = "Body"
             THEN "extracted" ELSE "absent"

\* enrich_films has returned; one film's task raised and another film was
\* fetched and merged all the same
WitnessFailuresIsolated ==
    /\ co_pc = "returned"
    /\ \E j \in Films : tpc[j] = "raised"
    /\ \E i \in Films :
         /\ tpc[i] = "done"
         /\ \A d \in Docs : fields[i][d] = "extracted"

\* C6 (Spec), the claim as stated: a request cancelled while enrichment is
\* in progress does not end run_scrape with an error: run_scrape stays on
\* its way to the report built from all records.
CancelStillReports == rs_pc \in {"enrich", "reported"}

\* C7 (SpecFilm), the claim as stated: the success counter counts the
\* finished films whose main or crew fetch returned something other than
\* absent, the failure counter the other finished films.
CountedByNonAbsent ==
    /\ enrich_success_count =
         Cardinality({i \in Films :
             /\ tpc[i] = "done"
             /\ (results[i]["main"] # "None" \/ results[i]["crew"] # "None")})
    /\ enrich_fail_count =
         Cardinality({i \in Films :
             /\ tpc[i] = "done"
             /\ results[i]["main"] = "None" /\ results[i]["crew"] = "None"})

\* C7 (SpecFilm), amended: the success counter counts the finished films
\* whose main or crew fetch returned a non-empty body, the failure counter
\* the other finished films (an empty body counts as absent); the results
\* of details and genres play no part.
CountedByNonEmpty ==
    /\ enrich_success_count =
         Cardinality({i \in Films :
             /\ tpc[i] = "done"
             /\ (results[i]["main"] = "Body" \/ results[i]["crew"] = "Body")})
    /\ enrich_fail_count =
         Cardinality({i \in Films :
             /\ tpc[i] = "done"
             /\ results[i]["main"] # "Body" /\ results[i]["crew"] # "Body"})

\* a film counted as failed although details and genres had a body and the
\* main fetch returned an empty one
WitnessCountedByNonEmpty ==
    \E i \in Films :
        /\ tpc[i] = "done"
        /\ results[i] = [d \in Docs |->
                           IF d = "main" THEN "Empty"
                           ELSE IF d = "crew" THEN "None" ELSE "Body"]
        /\ enrich_fail_count = 1
        /\ enrich_success_count = 0

\* C8 (Spec): a record without a film_path never has a document fetched,
\* keeps every enrichment field at its default, is never counted and never
\* ends in an error; and the step that skips it changes nothing else.
NoPathSkipped ==
    /\ [](\A i \in Films :
            film_path[i] \in {"None", "Empty"} =>
                /\ \A d \in Docs : <<i, d>> \notin fetched
                /\ fields[i] = [d \in Docs |-> "absent"]
                /\ results[i] = [d \in Docs |-> "pending"]
                /\ tpc[i] \in {"pending", "skipped", "cancelled"})
    /\ [][\A i \in Films :
            (tpc[i] # "skipped" /\ tpc'[i] = "skipped") =>
                /\ film_path[i] \in {"None", "Empty"}
                /\ \A j \in Films : j # i => tpc'[j] = tpc[j]
                /\ UNCHANGED <<film_path, max_concurrency, semaphore,
                               results, fields, fetched,
                               enrich_success_count, enrich_fail_count,
                               co_pc, rs_pc>>]_vars

\* a record with an empty path was skipped next to a film that was merged
WitnessNoPathSkipped ==
    /\ co_pc = "returned"
    /\ \E i \in Films : film_path[i] = "Empty" /\ tpc[i] = "skipped"
    /\ \E j \in Films : tpc[j] = "done" /\ fields[j]["main"] = "extracted"

\* C9 (SpecPages): a failed page fetch is the last fetch: scrape_all_pages
\* has returned (it neither retries nor raises), every page was requested
\* once, and the result is the records of the pages before the failure, in
\* page order.
PageFailureEndsScrape ==
    \A k \in 1..Len(pg_log) :
        pg_log[k] = FetchError =>
            /\ k = Len(pg_log)
            /\ k = current_page
            /\ pg_pc = "done"
            /\ pages_fetched = k - 1
            /\ all_films = ConcatPages(SubSeq(pg_log, 1, k - 1), 1)

\* the third page failed after two pages with records
WitnessPageFailureEndsScrape ==
    /\ Len(pg_log) = 3
    /\ pg_log[1] > 0 /\ pg_log[2] > 0
    /\ pg_log[3] = FetchError
    /\ Len(all_films) = pg_log[1] + pg_log[2]
    /\ pg_pc = "done"

\* C10 (SpecPages), the claim as stated: an empty page is the last page
\* fetched; a max_pages that is set bounds the pages fetched and a
\* max_films that is set bounds the records returned; without caps and
\* without error the result is all pages before the first empty one.
PaginationStops ==
    /\ \A k \in 1..Len(pg_log) :
         pg_log[k] = 0 => k = Len(pg_log) /\ pg_pc = "done"
    /\ max_pages # None => pages_fetched <= max_pages
    /\ (max_films # None /\ pg_pc = "done") => Len(all_films) <= max_films
    /\ (/\ max_pages = None /\ max_films = None
        /\ pg_pc = "done" /\ Last(pg_log) = 0) =>
           all_films = ConcatPages(pg_log, 1)

\* C11 (SpecRun): in all-years mode the years scraped are the current year
\* and the years before it, one by one and without a gap, each of them with
\* records; no year below 2000 is requested or scraped; and once the loop is
\* left, the year after the last one scraped is either below 2000 or has
\* no records, so the run of years is maximal.
AllYearsRun ==
    is_all =>
        /\ \A k \in 1..Len(years_scraped) :
              /\ years_scraped[k] = current_year - (k - 1)
              /\ years_scraped[k] >= LowerBoundYear
              /\ diary[years_scraped[k]] > 0
        /\ \A k \in 1..Len(scrapers) :
              /\ scrapers[k] = current_year - (k - 1)
              /\ scrapers[k] >= LowerBoundYear
        /\ Len(scrapers) \in {Len(years_scraped), Len(years_scraped) + 1}
        /\ run_pc # "loop" =>
              LET stop == current_year - Len(years_scraped)
              IN  stop < LowerBoundYear \/ diary[stop] = 0

\* an all-years run that scraped two years and stopped at an empty third one
WitnessAllYearsRun ==
    /\ is_all
    /\ run_pc = "returned"
    /\ Len(years_scraped) >= 2
    /\ Len(scrapers) = Len(years_scraped) + 1
    /\ diary[Last(scrapers)] = 0
    /\ Last(scrapers) >= LowerBoundYear

\* C12 (SpecRun): run_scrape never ends in an exception of the enrichment;
\* the report it returns has success false exactly when no record was
\* collected, and then it carries an error reason, the enrichment was not
\* called and no statistic was computed; with at least one record the
\* report has success true however many enrichments failed.
ZeroRecordsOnlyFailure ==
    /\ run_pc # "raised"
    /\ (run_enrich # "not_called" \/ run_stats) => run_films # <<>>
    /\ run_pc = "returned" =>
          /\ report.success \in {"true", "false"}
          /\ report.success = "false" <=> run_films = <<>>
          /\ report.success = "false" =>
                /\ report.error \in {"no_films", "no_films_any_year"}
                /\ run_enrich = "not_called"
                /\ ~run_stats
          /\ report.success = "true" =>
                /\ run_stats
                /\ run_enrich \in {"returned", "raised"}
                /\ run_enrich_failed \in 0..Len(run_films)

\* a successful report after an enrichment that raised
WitnessZeroRecordsOnlyFailure ==
    /\ run_pc = "returned"
    /\ report.success = "true"
    /\ run_enrich = "raised"
    /\ run_enrich_failed = Len(run_films)

\* the titles of a frame
TitlesOf(d) == {d[k].movie_name : k \in 1..Len(d)}

\* the rows of a frame with a given title
RowsOf(d, t) == {k \in 1..Len(d) : d[k].movie_name = t}

\* rating a is not above rating b, a missing rating being below every number
RatingLeq(a, b) == a = NaN \/ (b # NaN /\ a <= b)

Built == sc_pc \in {"built", "rebuilt"}

\* C13 (SpecDedup): the canonical set has at most as many rows as the full
\* set, every title of the full set is the title of exactly one canonical
\* row, and no canonical row has a title that is not in the full set.
CanonicalOncePerTitle ==
    Built =>
        /\ Len(df_unique) <= Len(self_df)
        /\ \A t \in TitlesOf(self_df) : Cardinality(RowsOf(df_unique, t)) = 1
        /\ TitlesOf(df_unique) \subseteq TitlesOf(self_df)

\* two titles, one of them watched twice
WitnessCanonicalOncePerTitle ==
    /\ Built
    /\ Len(df_unique) = 2
    /\ Len(self_df) = 3

\* C14 (SpecDedup): the rating of a title's canonical row is the rating of
\* one of the title's records and no record of the title has a higher one,
\* a missing rating being lower than every number, 0 included; so it is
\* missing only if every record of the title has no rating.
CanonicalRatingIsMax ==
    Built =>
        \A c \in 1..Len(df_unique) :
            LET ks == RowsOf(self_df, df_unique[c].movie_name)
            IN  /\ \E k \in ks : self_df[k].rating = df_unique[c].rating
                /\ \A k \in ks :
                      RatingLeq(self_df[k].rating, df_unique[c].rating)
                /\ df_unique[c].rating = NaN =>
                      \A k \in ks : self_df[k].rating = NaN

\* a title seen first without a rating and then rated 0.0: the canonical
\* rating is 0.0
WitnessCanonicalRatingIsMax ==
    /\ Built
    /\ \E c \in 1..Len(df_unique) :
          /\ df_unique[c].rating = 0
          /\ \E j, k \in RowsOf(self_df, df_unique[c].movie_name) :
                /\ j < k
                /\ self_df[j].rating = NaN
                /\ self_df[k].rating = 0

\* C15 (SpecDedup): the canonical row of a title is, among the title's
\* records that carry the canonical rating, the one that comes first in the
\* full set: it has that record's other columns.
CanonicalIsFirstOfMax ==
    Built =>
        \A c \in 1..Len(df_unique) :
            LET ks == {k \in RowsOf(self_df, df_unique[c].movie_name) :
                          self_df[k].rating = df_unique[c].rating}
            IN  /\ ks # {}
                /\ \E k \in ks :
                      /\ \A j \in ks : k <= j
                      /\ df_unique[c].entry = self_df[k].entry

\* a title watched three times, the second and third time with the same
\* rating, higher than the first: the canonical row is the second entry
WitnessCanonicalIsFirstOfMax ==
    /\ Built
    /\ Len(self_df) = 3
    /\ Len(df_unique) = 1
    /\ self_df[1].rating = 0
    /\ self_df[2].rating = 1
    /\ self_df[3].rating = 1
    /\ df_unique[1].entry = self_df[2].entry

Counted == {n \in DOMAIN scores : n >= 1}

\* C17 as stated (SpecScore): for every avg_rating from 0.0 to 5.0 and all
\* counts 1 <= n < n', the Bayesian score at n' is at least the score at n.
BayesianMonotone ==
    score_kind = "bayesian" /\ ~NoAvg(avg_rating) =>
        \A n, n2 \in Counted : n < n2 => ScoreLeq(scores[n], scores[n2])

\* C17 amended (SpecScore): for every avg_rating from 3.0 to 5.0 and all
\* counts 1 <= n < n', the Bayesian score at n' is at least the score at n;
\* for an avg_rating below 3.0 the score at n' is below the score at n.
BayesianMonotoneAbovePrior ==
    score_kind = "bayesian" /\ ~NoAvg(avg_rating) =>
        \A n, n2 \in Counted :
            n < n2 =>
                IF avg_rating[1] >= 6 * avg_rating[2]
                THEN ScoreLeq(scores[n], scores[n2])
                ELSE ScoreLess(scores[n2], scores[n])

\* an average of 3.5 scored for every count, the last score above the first
WitnessBayesianMonotoneAbovePrior ==
    /\ score_kind = "bayesian"
    /\ avg_rating = <<7, 1>>
    /\ count > MaxCount
    /\ ScoreLess(scores[1], scores[MaxCount])

\* C18 (SpecScore): for every avg_rating from 0.0 to 5.0 and every count
\* from 1 on, the value _wilson_score returns is at least 0, at most 5 and
\* at most avg_rating.
WilsonBelowAverage ==
    score_kind = "wilson" =>
        \A n \in Counted :
            /\ ScoreLeq(Zero, scores[n])
            /\ ScoreLeq(scores[n], Rat(5, 1))
            /\ ScoreLeq(scores[n], AvgScore(avg_rating))

ScoreKinds == {"weighted", "bayesian", "wilson"}

\* two scores of the same value
ScoreEq(x, y) == ~ScoreLess(x, y) /\ ~ScoreLess(y, x)

\* the items of a ranking
Ranked == {ranking[k].item : k \in 1..Len(ranking)}

\* the entries of the aggregate without an avg_rating, and those with one
UnratedEntries == {k \in 1..Len(stats) : stats[k].avg_rating[2] = 0}

RatedEntries == {k \in 1..Len(stats) : stats[k].avg_rating[2] > 0}

\* C19 (SpecRank): a facet value none of whose canonical films has a rating
\* is in no weighted, Bayesian or Wilson ranking, whatever n is, and no such
\* ranking ends in an exception; in the ranking by count it is listed
\* whenever n covers all values, and it is listed first when its count is
\* the highest and n >= 1.
UnratedOnlyByCount ==
    /\ rk_pc # "raised"
    /\ rk_pc = "ranked" /\ rank_kind \in ScoreKinds =>
          \A k \in UnratedEntries : stats[k].item \notin Ranked
    /\ rk_pc = "ranked" /\ rank_kind = "count" =>
          \A k \in UnratedEntries :
              /\ top_n >= Len(stats) => stats[k].item \in Ranked
              /\ (/\ top_n >= 1
                  /\ \A j \in 1..Len(stats) :
                        j # k => stats[j].count < stats[k].count)
                    => ranking[1].item = stats[k].item

\* a value seen first, in an unrated film only, and a value seen in a rated
\* film, ranked by a score with n = 2: only the rated value is returned
WitnessUnratedOnlyByCount ==
    /\ rk_pc = "ranked"
    /\ rank_kind \in ScoreKinds
    /\ top_n = 2
    /\ Len(stats) = 2
    /\ UnratedEntries = {1}
    /\ Len(ranking) = 1
    /\ ranking[1].item = stats[2].item

\* C20 (SpecRank): a score ranking returns min(n, number of rated values)
\* entries, each the tuple of a different rated value of the aggregate; the
\* scores do not increase along the list; no rated value left out scores
\* higher than a returned one; and of two values with equal score the one
\* seen first while aggregating comes first, and is the one returned if
\* only one of them is.
RankingIsTopN ==
    rk_pc = "ranked" /\ rank_kind \in ScoreKinds =>
        LET pos(k) == PositionOf(stats, ranking[k].item)
            left == {j \in RatedEntries : stats[j].item \notin Ranked}
            score(j) ==
                CASE rank_kind = "weighted" ->
                         WeightedScore(stats[j].avg_rating, stats[j].count)
                  [] rank_kind = "bayesian" ->
                         BayesianScore(stats[j].avg_rating, stats[j].count)
                  [] rank_kind = "wilson" ->
                         WilsonScore(stats[j].avg_rating, stats[j].count)
        IN  /\ Len(ranking) = IF top_n < Cardinality(RatedEntries)
                              THEN top_n ELSE Cardinality(RatedEntries)
            /\ \A k \in 1..Len(ranking) :
                  /\ pos(k) \in RatedEntries
                  /\ ranking[k].score = score(pos(k))
                  /\ ranking[k].count = stats[pos(k)].count
                  /\ ranking[k].avg_rating = stats[pos(k)].avg_rating
            /\ \A k, m \in 1..Len(ranking) :
                  k < m =>
                      /\ pos(k) # pos(m)
                      /\ ScoreLeq(ranking[m].score, ranking[k].score)
                      /\ ScoreEq(ranking[m].score, ranking[k].score)
                            => pos(k) < pos(m)
            /\ \A k \in 1..Len(ranking) :
                  \A j \in left :
                      /\ ScoreLeq(score(j), ranking[k].score)
                      /\ ScoreEq(score(j), ranking[k].score) => pos(k) < j

\* two rated values with the same score, value 2 seen first, n = 1: value 2
\* is the one returned
WitnessRankingIsTopN ==
    /\ rk_pc = "ranked"
    /\ rank_kind \in ScoreKinds
    /\ top_n = 1
    /\ Len(stats) = 2
    /\ RatedEntries = {1, 2}
    /\ stats[1].item = 2
    /\ stats[1].count = stats[2].count
    /\ stats[1].avg_rating = stats[2].avg_rating
    /\ Len(ranking) = 1
    /\ ranking[1].item = 2

\* the number of diary records of title t in the frame handed over
DiaryCount(t) == Cardinality({k \in 1..Len(df) : df[k].movie_name = t})

\* the titles top_rewatched returned
RewatchedTitles == {rewatched[k].movie : k \in 1..Len(rewatched)}

RowsHolding(i) ==
    {r \in 1..Len(unique_rows) :
        \E j \in 1..Len(unique_rows[r].items) : unique_rows[r].items[j] = i}

RatedRowsHolding(i) == {r \in RowsHolding(i) : unique_rows[r].rating # NaN}

\* the ratings of a set of canonical rows added up, in half stars
RECURSIVE RatingTotal(_)

RatingTotal(R) ==
    IF R = {} THEN 0
    ELSE LET r == CHOOSE x \in R : TRUE
         IN  unique_rows[r].rating + RatingTotal(R \ {r})

\* C22 (SpecRank): the aggregate has exactly one entry for each value held
\* by some canonical film; its count is the number of canonical films
\* holding the value, at most the size of the canonical set; its avg_rating
\* is the mean of the ratings of the rated ones among these films, and is
\* absent exactly when none of them is rated.
AggregateCountsCanonicalFilms ==
    rk_pc = "aggregated" =>
        /\ \A i \in Items : RowsHolding(i) # {} <=> PositionOf(stats, i) # 0
        /\ \A k, m \in 1..Len(stats) : stats[k].item = stats[m].item => k = m
        /\ \A k \in 1..Len(stats) :
              LET i == stats[k].item
              IN  /\ stats[k].count = Cardinality(RowsHolding(i))
                  /\ stats[k].count <= Len(unique_rows)
                  /\ stats[k].avg_rating =
                        <<RatingTotal(RatedRowsHolding(i)),
                          Cardinality(RatedRowsHolding(i))>>
                  /\ NoAvg(stats[k].avg_rating) <=> RatedRowsHolding(i) = {}

\* a value held by a rated and by an unrated canonical film: count 2, and
\* the average is the one rating
WitnessAggregateCountsCanonicalFilms ==
    /\ rk_pc = "aggregated"
    /\ \E k \in 1..Len(stats) :
          /\ stats[k].count = 2
          /\ Cardinality(RatedRowsHolding(stats[k].item)) = 1
          /\ stats[k].avg_rating[2] = 1
          /\ stats[k].avg_rating[1] > 0

\* the dated records of the full set, and those of one date
DatedRecords == {k \in 1..Len(watch_df) : watch_df[k].watch_date \in Days}

RecordsOn(d) == {k \in DatedRecords : watch_df[k].watch_date = d}

RecordsUpTo(d) == {k \in DatedRecords : watch_df[k].watch_date <= d}

\* C23 (SpecTimeline): the aggregated timeline has one entry for each
\* date on which a dated record of the full set was watched, in strictly
\* ascending date order; films_on_day is the number of records of that
\* date, cumulative_count the number of records dated on or before it; the
\* last cumulative_count is the number of dated records.
TimelineIsCumulative ==
    vw_pc = "timeline" =>
        /\ {timeline[k].date : k \in 1..Len(timeline)} =
              {IsoDate(d) : d \in {e \in Days : RecordsOn(e) # {}}}
        /\ \A k \in 1..Len(timeline) :
              \E d \in Days :
                  /\ timeline[k].date = IsoDate(d)
                  /\ timeline[k].films_on_day = Cardinality(RecordsOn(d))
                  /\ timeline[k].cumulative_count = Cardinality(RecordsUpTo(d))
        /\ \A k, m \in 1..Len(timeline) :
              k < m => timeline[k].date[2] < timeline[m].date[2]
        /\ Len(timeline) > 0 =>
              timeline[Len(timeline)].cumulative_count = Cardinality(DatedRecords)

\* a diary of four records, one of them undated, a rewatch among the two
\* of the first date: the timeline is (d1, 2, 2), (d2, 1, 3)
WitnessTimelineIsCumulative ==
    /\ vw_pc = "timeline"
    /\ Len(watch_df) = 4
    /\ Cardinality(DatedRecords) = 3
    /\ \E j, k \in RecordsOn(1) :
          j # k /\ watch_df[j].movie_name = watch_df[k].movie_name
    /\ Len(timeline) = 2
    /\ timeline[1].films_on_day = 2
    /\ timeline[2].films_on_day = 1
    /\ timeline[2].cumulative_count = 3

\* the dated records of the full set watched before date d
RecordsBefore(d) == {k \in DatedRecords : watch_df[k].watch_date < d}

\* the positions get_milestones reported
ReportedPositions == {milestones[k].milestone : k \in 1..Len(milestones)}

\* C24 (SpecMilestones): a milestone is reported for position p of 1, 50,
\* 100, 250, 500 exactly when the full set has at least p dated records;
\* the record reported for p is one of a date d with fewer than p records
\* before d and at least p up to d, which makes it the p-th in ascending
\* date order; the record at position 1 has the earliest date; nothing is
\* reported when no record is dated.
MilestonesByDate ==
    vw_pc = "milestones" =>
        /\ ReportedPositions =
              {p \in {1, 50, 100, 250, 500} : p <= Cardinality(DatedRecords)}
        /\ Len(milestones) = Cardinality(ReportedPositions)
        /\ \A k \in 1..Len(milestones) :
              \E d \in Days :
                  /\ milestones[k].watch_date = LongDate(d)
                  /\ Cardinality(RecordsBefore(d)) < milestones[k].milestone
                  /\ milestones[k].milestone <= Cardinality(RecordsUpTo(d))
                  /\ \E j \in RecordsOn(d) :
                        watch_df[j].movie_name = milestones[k].film_name
                  /\ milestones[k].milestone = 1 => RecordsBefore(d) = {}
        /\ DatedRecords = {} => milestones = <<>>

\* a diary listed newest first with 49 records of the first date, 50 of
\* the second and an undated one: milestone 1 is of the first date, milestone
\* 50 of the second, and there is no milestone 100
WitnessMilestonesByDate ==
    /\ vw_pc = "milestones"
    /\ Len(watch_df) = 100
    /\ watch_df[1].watch_date = NaT
    /\ Cardinality(RecordsOn(1)) = 49
    /\ Len(milestones) = 2
    /\ milestones[1].watch_date = LongDate(1)
    /\ milestones[2].milestone = 50
    /\ milestones[2].watch_date = LongDate(2)

\* the canonical films of director i that have both ratings
FilmsBothRated(i) ==
    {r \in 1..Len(hype_rows) :
        /\ hype_rows[r].rating # NaN
        /\ hype_rows[r].avg_rating # NaN
        /\ \E j \in 1..Len(hype_rows[r].directors) :
              hype_rows[r].directors[j] = i}

\* the variances of a set of canonical films added up
RECURSIVE VarianceTotal(_)

VarianceTotal(R) ==
    IF R = {} THEN 0
    ELSE LET r == CHOOSE x \in R : TRUE
         IN  hype_rows[r].rating - hype_rows[r].avg_rating
             + VarianceTotal(R \ {r})

\* the ranking lists different directors with at least `least` films that
\* have both ratings, each with its number of such films and the score of
\* their variances, and as many of them as n allows
HypeRankingAdmits(least) ==
    LET admitted == {i \in Items : Cardinality(FilmsBothRated(i)) >= least}
    IN  /\ \A k \in 1..Len(hype_ranking) :
              LET i == hype_ranking[k].director
              IN  /\ i \in admitted
                  /\ hype_ranking[k].num_films = Cardinality(FilmsBothRated(i))
                  /\ hype_ranking[k].weighted_score =
                        [v |-> VarianceTotal(FilmsBothRated(i)),
                         n |-> Cardinality(FilmsBothRated(i))]
        /\ \A k, m \in 1..Len(hype_ranking) :
              k # m => hype_ranking[k].director # hype_ranking[m].director
        /\ Len(hype_ranking) = IF hype_n < Cardinality(admitted)
                               THEN hype_n ELSE Cardinality(admitted)

\* weighted_score does not decrease along the ranking
HypeNonDecreasing ==
    \A k, m \in 1..Len(hype_ranking) :
        k < m => ~HypeLess(hype_ranking[m].weighted_score,
                           hype_ranking[k].weighted_score)

\* weighted_score does not increase along the ranking
HypeNonIncreasing ==
    \A k, m \in 1..Len(hype_ranking) :
        k < m => ~HypeLess(hype_ranking[k].weighted_score,
                           hype_ranking[m].weighted_score)

\* C25 as stated (SpecHype): called without min_films, the underhyped
\* ranking holds only directors with at least 2 canonical films that have
\* both ratings, in non-decreasing order of weighted_score, and the
\* overhyped ranking admits directors with 1 such film, in non-increasing
\* order.
HypeDefaultMinimums ==
    hy_pc = "ranked" /\ hype_min = None =>
        /\ hype_kind = "underhyped" =>
              HypeRankingAdmits(2) /\ HypeNonDecreasing
        /\ hype_kind = "overhyped" =>
              HypeRankingAdmits(1) /\ HypeNonIncreasing

\* C25 (SpecHype): the underhyped ranking called with min_films = 2, as
\* run_scrape calls it, holds only directors with at least 2 canonical
\* films that have both ratings, in non-decreasing order of weighted_score;
\* called without min_films it admits directors with 1 such film, as the
\* overhyped ranking does, which is in non-increasing order.
HypeMinimums ==
    hy_pc = "ranked" =>
        /\ HypeRankingAdmits(IF hype_min = None THEN 1 ELSE hype_min)
        /\ hype_kind = "underhyped" => HypeNonDecreasing
        /\ hype_kind = "overhyped" => HypeNonIncreasing

\* two canonical films with both ratings, director 1 on both and director
\* 2 on one: the underhyped ranking with min_films = 2 and n = 2 returns
\* director 1 only
WitnessHypeMinimums ==
    /\ hy_pc = "ranked"
    /\ hype_kind = "underhyped"
    /\ hype_min = 2
    /\ hype_n = 2
    /\ Cardinality(FilmsBothRated(1)) = 2
    /\ Cardinality(FilmsBothRated(2)) = 1
    /\ Len(hype_ranking) = 1
    /\ hype_ranking[1].director = 1

\* C26 (SpecFilm): once a film is merged, the fields of each of its four
\* documents are extracted if that document's fetch returned a body and are
\* at their defaults if it returned nothing, whatever the other three
\* fetches returned; and no step changes the fields of a document other
\* than the merge of a film whose fetch of that document returned a body.
FieldsPerDocument ==
    /\ [](\A i \in Films :
            tpc[i] = "done" =>
                \A d \in Docs :
                    /\ results[i][d] = "Body" => fields[i][d] = "extracted"
                    /\ results[i][d] \in {"None", "Empty"} =>
                          fields[i][d] = "absent")
    /\ [][\A i \in Films : \A d \in Docs :
            fields'[i][d] # fields[i][d] =>
                /\ tpc[i] = "gathered"
                /\ tpc'[i] = "done"
                /\ results[i][d] = "Body"]_vars

\* a film merged with no main document and no details document: the crew
\* and genres fields are extracted, the main and details fields are not
WitnessFieldsPerDocument ==
    \E i \in Films :
        /\ tpc[i] = "done"
        /\ results[i] = [d \in Docs |->
                           IF d \in {"main", "details"} THEN "None" ELSE "Body"]
        /\ fields[i] = [d \in Docs |->
                          IF d \in {"main", "details"} THEN "absent"
                          ELSE "extracted"]

\* C27 (as stated): within one film's slot no enrichment field is written
\* and nothing is counted until all four fetches, retries included, have
\* finished, and the slot is released only after the four documents have
\* been merged.
MergeAfterAllFetches ==
    /\ [](\A i \in Films :
            tpc[i] = "fetching" /\ (\E d \in Docs : results[i][d] \in InFlight)
                => fields[i] = DefaultFields)
    /\ [](enrich_success_count + enrich_fail_count
            = Cardinality({i \in Films : tpc[i] = "done"}))
    /\ [][\A i \in Films :
            fields'[i] # fields[i] \/ (tpc[i] # "done" /\ tpc'[i] = "done")
                => \A d \in Docs : results[i][d] \in Results]_vars
    /\ [][\A i \in Films :
            tpc[i] \in InSlot /\ tpc'[i] \notin InSlot
                => /\ tpc'[i] = "done"
                   /\ \A d \in Docs :
                        fields'[i][d] = IF results[i][d] = "Body"
                                        THEN "extracted" ELSE "absent"]_vars

\* C27 (amended): as above, but a task cancelled inside its slot releases
\* the slot with nothing merged and nothing counted.
MergeAfterAllFetchesUnlessCancelled ==
    /\ [](\A i \in Films :
            tpc[i] = "fetching" /\ (\E d \in Docs : results[i][d] \in InFlight)
                => fields[i] = DefaultFields)
    /\ [](enrich_success_count + enrich_fail_count
            = Cardinality({i \in Films : tpc[i] = "done"}))
    /\ [][\A i \in Films :
            fields'[i] # fields[i] \/ (tpc[i] # "done" /\ tpc'[i] = "done")
                => \A d \in Docs : results[i][d] \in Results]_vars
    /\ [][\A i \in Films :
            tpc[i] \in InSlot /\ tpc'[i] \notin InSlot
                => \/ /\ tpc'[i] = "done"
                      /\ \A d \in Docs :
                           fields'[i][d] = IF results[i][d] = "Body"
                                           THEN "extracted" ELSE "absent"
                   \/ /\ tpc'[i] = "cancelled"
                      /\ co_pc' = "cancelled"
                      /\ fields'[i] = DefaultFields
                      /\ enrich_success_count' = enrich_success_count
                      /\ enrich_fail_count' = enrich_fail_count]_vars

\* three fetches are back with a body, the fourth is on its last attempt:
\* the film holds its slot, unmerged and uncounted
WitnessMergeAfterAllFetches ==
    \E i \in Films :
        /\ tpc[i] = "fetching"
        /\ results[i] = [d \in Docs |->
                           IF d = "genres" THEN "retry3" ELSE "Body"]
        /\ fields[i] = DefaultFields
        /\ enrich_success_count + enrich_fail_count = 0
        /\ semaphore = max_concurrency - 1

\* C28 (SpecPages): at most one page request is in flight; the request of
\* page k+1 starts only when page k has been fetched, parsed and found to
\* hold records and the one delay after it is over; once pagination has
\* stopped, the delays taken are one fewer than the pages requested, so
\* none follows the last page.
OnePageAtATime ==
    /\ [](Cardinality(pg_in_flight) <= 1)
    /\ [](pg_pc = "done" =>
            pg_in_flight = {} /\ page_delays = Len(pg_log) - 1)
    /\ [][\A k \in 0..(MaxPage + 1) :
            (k + 1 \in pg_in_flight' /\ k + 1 \notin pg_in_flight) =>
                /\ pg_in_flight = {}
                /\ Len(pg_log) = k
                /\ pages_fetched = k
                /\ page_delays = k
                /\ k > 0 => pg_log[k] > 0]_vars
    /\ [][page_delays' # page_delays =>
            /\ page_delays' = page_delays + 1
            /\ pg_in_flight = {}
            /\ Last(pg_log) > 0
            /\ pg_pc' = "fetch"]_vars

\* the third page is awaited after two pages with records and two delays
WitnessOnePageAtATime ==
    /\ pg_pc = "fetching"
    /\ pg_in_flight = {3}
    /\ Len(pg_log) = 2
    /\ pg_log[1] > 0 /\ pg_log[2] > 0
    /\ page_delays = 2

\* the films of the batch whose task has counted with a usable main or crew
\* page, and those whose task has counted without one
CountedSuccess ==
    {i \in Films : /\ tpc[i] = "done"
                   /\ (results[i]["main"] = "Body" \/ results[i]["crew"] = "Body")}

CountedFail ==
    {i \in Films : /\ tpc[i] = "done"
                   /\ results[i]["main"] # "Body" /\ results[i]["crew"] # "Body"}

\* C29 (Spec): under every interleaving of the film tasks each counter is
\* at all times the number of films whose task has counted on that side, so
\* no increment is lost and no film counts twice; a film without a path is
\* never counted; and once enrich_films has returned, the two counters add
\* up to the number of films with a path.
CountersExact ==
    /\ enrich_success_count = Cardinality(CountedSuccess)
    /\ enrich_fail_count = Cardinality(CountedFail)
    /\ \A i \in Films : film_path[i] \in {"None", "Empty"} => tpc[i] # "done"
    /\ co_pc = "returned" =>
          enrich_success_count + enrich_fail_count
              = Cardinality({i \in Films : film_path[i] = "Path"})

\* two films were enriched side by side, one counted on each side
WitnessCountersExact ==
    /\ co_pc = "returned"
    /\ max_concurrency >= 2
    /\ enrich_success_count = 1
    /\ enrich_fail_count = 1
    /\ \E i, j \in Films : i # j /\ tpc[i] = "done" /\ tpc[j] = "done"

\* C30 (SpecLive): under fair scheduling, with every request returning,
\* enrich_films returns; every film task gets a slot, every slot taken is
\* given back, also by a task that finds no path or raises, and in the end
\* every task has finished and all max_concurrency permits are free.
EnrichmentTerminates ==
    /\ <>[](/\ co_pc = "returned"
            /\ semaphore = max_concurrency
            /\ \A i \in Films : tpc[i] \in {"done", "skipped", "raised"})
    /\ \A i \in Films : (tpc[i] = "pending") ~> (tpc[i] # "pending")
    /\ \A i \in Films :
          (tpc[i] \in InSlot) ~> (tpc[i] = "done" /\ semaphore > 0)

\* a batch larger than the number of permits has been worked off: one film
\* was enriched, one had no path
WitnessEnrichmentTerminates ==
    /\ co_pc = "returned"
    /\ max_concurrency = 1
    /\ semaphore = 1
    /\ \E i, j \in Films :
          /\ tpc[i] = "done"
          /\ tpc[j] = "skipped"


============================================================================
